---------------------------- MODULE Spec2Model ----------------------------
(***************************************************************************)
(* A model of the scoring pipeline of USA_COre:                            *)
(*   - the reflection engine      src/actual_r3.py   (ActualR3Engine)      *)
(*   - the two grounding engines  src/axioms.py      (AxiomaticGrounding)  *)
(*                                src/src/axioms.py  (AxiomSystem)         *)
(*   - the two reasoning engines  src/reasoning_engine.py                  *)
(*                                src/src/reasoning.py                     *)
(*   - the system's process()     src/actual_system.py                     *)
(*     and its convergence and safety checks                               *)
(*   - the service's handlers     src/app.py                               *)
(*                                                                         *)
(* Numbers.  Python floats are modelled in fixed point: a certainty, an    *)
(* emergence score or a Lambda value x is the integer x * 10000 (Unit).    *)
(* Texts are sequences of tokens (what str.split() yields); the lexical    *)
(* facts the code reads off a token (first letter upper case, length,      *)
(* lower-case form, the substrings it looks for) are tables over the       *)
(* vocabulary Words.                                                       *)
(***************************************************************************)
EXTENDS Integers, Sequences, FiniteSets, TLC

VARIABLES
    \* ---- ActualR3Engine (src/actual_r3.py:36-49)
    lambda_total,        \* self.lambda_total
    cycles,              \* self.cycles
    emergence_history,   \* self.emergence_history
    improvement_log,     \* self.improvement_log
    reasoning_depth,     \* self.baselines["reasoning_depth"]
    r3_build,            \* which engine is under test (see R3Builds)
    r3_calls,            \* number of reflect() calls made so far (bookkeeping)
    r3_last,             \* what the last reflect() call did (bookkeeping)
    \* ---- AxiomaticGrounding (src/axioms.py:43-45)
    proof_history,       \* self.proof_history
    \* ---- AxiomSystem (src/src/axioms.py:28-31)
    proof_cache,         \* self.proof_cache: hash -> grounded
    grounding_history,   \* self.grounding_history
    clock,               \* what datetime.utcnow() reads
    ground_last,         \* what the last grounding call did (bookkeeping)
    \* ---- ReasoningEngine (src/src/reasoning.py:10-20)
    reasoning_cache,     \* self.reasoning_cache: cache key -> result
    performance_stats,   \* self.performance_stats
    reason_seen,         \* (query, context, depth) -> what its first
                         \* reason_about call returned or raised
                         \* (bookkeeping)
    reason_last,         \* what the last reason_about call did (bookkeeping)
    \* ---- the certainty functions applied on their own
    probe,               \* the arguments, then the certainties computed
    \* ---- the service (src/app.py:91-95)
    app,                 \* app.state.r3 and the requests in flight
    \* ---- ActualAbsoluteIntelligence (src/actual_system.py:13-35)
    system               \* queries_processed, reasoning_paths, the Lambda
                         \* history of self.metrics, and what the last
                         \* process() call did (bookkeeping)

r3vars == <<lambda_total, cycles, emergence_history, improvement_log,
            reasoning_depth, r3_build, r3_calls, r3_last>>

groundvars == <<proof_history, proof_cache, grounding_history, clock,
                ground_last>>

reasonvars == <<reasoning_cache, performance_stats, reason_seen, reason_last>>

vars == <<r3vars, groundvars, reasonvars, probe, app, system>>

-----------------------------------------------------------------------------
(* Bounds of the model.                                                    *)

MaxCalls == 3
MaxGroundings == 2
MaxClock == 1
MaxProofLen == 2
MaxReasonCalls == 3
MaxCount == 4
MaxHistory == 6
MaxRequests == 3
MaxQueryLen == 3
MaxQueries == 4
MaxTypes == 14

-----------------------------------------------------------------------------
(* Fixed point.                                                            *)

Unit == 100 * 100

Min(a, b) == IF a <= b THEN a ELSE b
Max(a, b) == IF a >= b THEN a ELSE b

RECURSIVE SumSeq(_)
SumSeq(s) == IF s = <<>> THEN 0 ELSE Head(s) + SumSeq(Tail(s))

\* A call that raises the exception e yields the record Raised(e) in place
\* of a value.
Raised(e) == [raised |-> e]
IsRaised(r) == "raised" \in DOMAIN r

\* whether the name json is bound in the module src/src/reasoning.py (its
\* imports, lines 1-7, leave it out)
JsonImported == FALSE

\* np.log2(k) * Unit, rounded down, for the arguments the engines produce.
Log2U(k) ==
    CASE k = 1 -> 0
      [] k = 2 -> 10000
      [] k = 3 -> 15849
      [] k = 4 -> 20000
      [] k = 5 -> 23219
      [] k = 6 -> 25849
      [] k = 7 -> 28073
      [] k = 8 -> 30000

\* np.sqrt(n) * Unit, rounded down.
SqrtU(n) ==
    CASE n = 0 -> 0
      [] n = 1 -> 10000
      [] n = 2 -> 14142
      [] n = 3 -> 17320
      [] n = 4 -> 20000
      [] n = 5 -> 22360
      [] n = 6 -> 24494
      [] n = 7 -> 26457
      [] n = 8 -> 28284
      [] n = 9 -> 30000
      [] n = 10 -> 31622

-----------------------------------------------------------------------------
(* The vocabulary, and what the code reads off a token.                    *)

Words ==
    {"A", "=", "John", "is", "a", "teacher", "create", "new", "plan",
     "Optimization", "cycle", "1", "and", "not", "paradox", "AND",
     "Analyze", "what", "I'm", "doing:", "all", "planning", "he", "Will",
     "why?"}

\* word[0].isupper()
UpperFirst(w) ==
    w \in {"A", "John", "Optimization", "AND", "Analyze", "I'm", "Will"}

\* len(word)
TokLen(w) ==
    CASE w \in {"A", "=", "a", "1"} -> 1
      [] w \in {"is", "he"} -> 2
      [] w \in {"new", "and", "not", "AND", "I'm", "all"} -> 3
      [] w \in {"John", "plan", "what", "Will", "why?"} -> 4
      [] w \in {"cycle"} -> 5
      [] w \in {"create", "doing:"} -> 6
      [] w \in {"teacher", "paradox", "Analyze"} -> 7
      [] w \in {"planning"} -> 8
      [] w \in {"Optimization"} -> 12

\* word.lower()
Lower(w) ==
    CASE w = "A" -> "a"
      [] w = "John" -> "john"
      [] w = "Optimization" -> "optimization"
      [] w = "AND" -> "and"
      [] w = "Analyze" -> "analyze"
      [] w = "I'm" -> "i'm"
      [] w = "Will" -> "will"
      [] OTHER -> w

\* "new" in w.lower() or "create" in w.lower()          (src/actual_r3.py:238),
\* for the words and for the fixed parts of the insight texts
HasNovelty(w) ==
    Lower(w) \in {"new", "create", "New framework created:", "{'note': 'new'}",
                  "{'reasoning': {'query': 'create new plan'}}"}

\* The texts of the model: every token sequence is a text of single-spaced words.
TextNovel(t) == \E i \in 1..Len(t) : HasNovelty(t[i])

-----------------------------------------------------------------------------
(* RecursiveReasoningEngine, src/reasoning_engine.py.  Line 25 of the      *)
(* module ends in a stray "and", so the module does not compile: importing *)
(* it raises SyntaxError and no engine is ever built.  The functions of    *)
(* the module are modelled as they are written; every call that needs an   *)
(* engine made by this module raises.                                      *)

\* whether src/reasoning_engine.py compiles (src/reasoning_engine.py:25)
RecModuleCompiles == FALSE

\* the names the dict literal of _init_logical_operators lists
\* (src/reasoning_engine.py:20-28)
ConceptNodes == {"AND", "OR", "NOT", "IMPLIES", "IFF", "FORALL", "EXISTS"}

\* _init_logical_operators (src/reasoning_engine.py:18-31), the only writer of
\* self.concept_nodes: what the dict holds once __init__ has run
InitLogicalOperators ==
    IF RecModuleCompiles THEN ConceptNodes ELSE Raised("SyntaxError")

\* whether the helpers reason_about needs are defined: _parse_query calls
\* _extract_quantifiers, _extract_modalities, _extract_tense,
\* _build_logical_form and _calculate_complexity (src/reasoning_engine.py:88-107),
\* and none of them is defined in the module
RecHelpersDefined == FALSE

Pronouns == {"I", "you", "he", "she", "it", "we", "they"}

\* _extract_entities (src/reasoning_engine.py:109-119)
RecIsEntity(w) ==
    \/ (UpperFirst(w) /\ TokLen(w) > 2)
    \/ w \in Pronouns
RecExtractEntities(words) == SelectSeq(words, RecIsEntity)

RelationWords == {"is", "has", "can", "does", "will", "should", "must"}

RECURSIVE RecRelationsFrom(_, _)
\* _extract_relations (src/reasoning_engine.py:121-136): range(len(words) - 1)
\* leaves the last word out.
RecRelationsFrom(words, i) ==
    IF i > Len(words) - 1 THEN <<>>
    ELSE (IF Lower(words[i]) \in RelationWords
          THEN <<[subject |-> IF i > 1 THEN words[i - 1] ELSE "",
                  relation |-> words[i],
                  object |-> words[i + 1]]>>
          ELSE <<>>) \o RecRelationsFrom(words, i + 1)
RecExtractRelations(words) == RecRelationsFrom(words, 1)

RecUnknownEntity(e) == e \notin ConceptNodes
RecKnownEntity(e) == e \in ConceptNodes

RECURSIVE RecCheckRelations(_, _, _, _)
\* the loop of src/reasoning_engine.py:160-171; valid[i] is what
\* _validate_relation answers for the i-th relation; want selects the branch.
RecCheckRelations(rs, valid, i, want) ==
    IF i > Len(rs) THEN <<>>
    ELSE (IF valid[i] = want THEN <<rs[i]>> ELSE <<>>)
         \o RecCheckRelations(rs, valid, i + 1, want)

\* _base_reasoning (src/reasoning_engine.py:138-176)
RecBaseReasoning(words, valid) ==
    LET es == RecExtractEntities(words)
        rs == RecExtractRelations(words)
        unknowns == SelectSeq(es, RecUnknownEntity)
        contradictions == RecCheckRelations(rs, valid, 1, FALSE)
        known == SelectSeq(es, RecKnownEntity)
        okrels == RecCheckRelations(rs, valid, 1, TRUE)
    IN  [direct_inferences |->
             [i \in 1..Len(known) |-> [entity |-> known[i]]]
             \o [i \in 1..Len(okrels) |-> [relation |-> okrels[i], valid |-> TRUE]],
         contradictions |-> contradictions,
         unknowns |-> unknowns,
         needs_refinement |-> (Len(unknowns) > 0 \/ Len(contradictions) > 0)]

\* _calculate_certainty (src/reasoning_engine.py:230-249)
RecCalculateCertainty(result, depth) ==
    LET contradiction_penalty == Len(result.contradictions) * 2000
        depth_bonus == Min(3000, depth * 500)
        base_certainty == 7000
        unknown_penalty == Len(result.unknowns) * 1000
        certainty == base_certainty + depth_bonus - contradiction_penalty
                     - unknown_penalty
    IN  Max(1000, Min(Unit, certainty))

RECURSIVE ISqrtIn(_, _, _)
\* the largest r in lo..hi with r * r <= n
ISqrtIn(n, lo, hi) ==
    IF lo >= hi THEN lo
    ELSE LET mid == (lo + hi + 1) \div 2
         IN  IF mid * mid <= n THEN ISqrtIn(n, mid, hi)
             ELSE ISqrtIn(n, lo, mid - 1)

\* np.sqrt(tenths / 10) * Unit, rounded down; above 20.0 the root is taken
\* to three decimals, which keeps the products inside 32 bits up to 2000.0
SqrtTenthsU(tenths) ==
    IF tenths <= 200 THEN ISqrtIn(tenths * 1000 * Unit, 0, 46340)
    ELSE 10 * ISqrtIn(tenths * 100000, 0, 46340)

\* the distinct values of insight.get("type", "unknown")
PatternTypes(novel_patterns) ==
    {novel_patterns[i] : i \in 1..Len(novel_patterns)}

\* _calculate_emergence (src/reasoning_engine.py:202-228).  refined is <<>>
\* when the result has no "refined" key and <<r>> otherwise; an insight is
\* its type.  num_novel * diversity is the number of pattern types, and
\* depth_factor is (10 + depth) tenths.
RecCalculateEmergence(refined, depth) ==
    LET novel_patterns == IF refined = <<>> THEN <<>>
                          ELSE refined[1].novel_insights
        num_novel == Len(novel_patterns)
        pattern_types == PatternTypes(novel_patterns)
        emergence ==
            IF num_novel > 0
            THEN SqrtTenthsU(Cardinality(pattern_types) * (10 + depth))
            ELSE 0
    IN  Min(5 * Unit, emergence)

\* the depths RecursiveReasoningEngine.reason_about computes a certainty
\* and an emergence at: 0 (the default) up to max_depth - 1 (src/reasoning_engine.py:9, 62)
RecDepths == {0, 1, 9}

-----------------------------------------------------------------------------
(* ActualR3Engine, src/actual_r3.py.                                       *)

\* self.baselines (src/actual_r3.py:44-49)
CertaintyThreshold == 7000
EmergenceTarget == 2 * Unit
LambdaGrowthTarget == 1000
InitialLambda == 10 * Unit
InitialDepth == 2

\* The engine under test.  "shipped" is ActualR3Engine as src/actual_r3.py
\* holds it, handed a ReasoningEngine of src/src/reasoning.py.  The class
\* calls nine methods that are defined nowhere (_get_current_state,
\* _analyze_thinking_patterns, _identify_recursions, _find_fixed_points,
\* _generate_new_framework, _extract_actual_improvements and the three
\* _implement_* handlers), so reading any of them raises AttributeError.
\* "completed" is the class with these nine methods supplied as the
\* specification describes them, handed a reasoning engine whose
\* reason_about answers.
R3Builds == {"shipped", "completed"}

\* whether the engine under test holds the method
HasMethod(name) == r3_build = "completed"

\* The queries and contexts reflect() is called with in the model.  The
\* context only shows in the insight "Context: {context}".
R3Queries ==
    {<<"Optimization", "cycle", "1">>,
     <<"create", "new", "plan">>,
     <<"John", "is", "a", "teacher">>}
R3Contexts == {"None", "{'note': 'new'}"}

\* f"Analyze what I'm doing: {query}"                      (src/actual_r3.py:110)
MetaQuery(query) == <<"Analyze", "what", "I'm", "doing:">> \o query

\* What self._analyze_thinking_patterns(reflexive) may return on the
\* completed engine: the keys the engine reads are pattern_types, certainty
\* (optional: NoValue when the key is absent) and inefficient_patterns.  The
\* certainty is handed on as it is (src/actual_r3.py:148) and nothing in src/
\* bounds it, so a value above 1.0 is among them.
NoValue == 0 - 1
ThinkingPatterns ==
    {[pattern_types |-> <<"linear">>, certainty |-> NoValue,
      inefficient_patterns |-> <<>>],
     [pattern_types |-> <<"create">>, certainty |-> 9000,
      inefficient_patterns |-> <<"loop">>],
     [pattern_types |-> <<"linear">>, certainty |-> 9000,
      inefficient_patterns |-> <<>>],
     [pattern_types |-> <<>>, certainty |-> 5000,
      inefficient_patterns |-> <<"loop">>],
     [pattern_types |-> <<"linear">>, certainty |-> 7000,
      inefficient_patterns |-> <<>>],
     [pattern_types |-> <<"linear">>, certainty |-> 12000,
      inefficient_patterns |-> <<>>]}
AnalyzeThinkingPatterns(reflexive, oracle) == oracle
IdentifyRecursions(patterns) == [max_depth |-> 0]
FindFixedPoints(recursions) == <<>>
GetCurrentState == <<"#">>
GenerateNewFramework(regenerative) == [name |-> "framework"]

\* dict.get(key, default)
GetOr(v, default) == IF v = NoValue THEN default ELSE v

\* An insight is its text: the fixed part of the f-string, then the words
\* of what it interpolates (a number or a state summary is the word "#").
Insight(prefix, body) == <<prefix>> \o body

\* _reflexive_level (src/actual_r3.py:107-124).  The first statement calls
\* self.reasoning_engine.reason_about (line 109): the ReasoningEngine the
\* shipped engine is handed raises NameError there (json is not imported),
\* and were it to answer, the f-string of line 121 reads
\* self._get_current_state, which raises AttributeError.  The engine the
\* completed one is handed answers at depth 1 with the certainty
\* RecursiveReasoningEngine is written to compute; valid is what
\* _validate_relation answers inside that reason_about.
ReflexiveLevel(query, context, valid) ==
    LET analysis ==
            [certainty |->
                RecCalculateCertainty(RecBaseReasoning(MetaQuery(query), valid), 1)]
    IN  IF r3_build = "shipped" /\ ~JsonImported THEN Raised("NameError")
        ELSE IF ~HasMethod("_get_current_state") THEN Raised("AttributeError")
        ELSE [level |-> "reflexive",
              input |-> "query",
              insights |-> <<Insight("Processing query:", query),
                             Insight("Context:", <<context>>),
                             Insight("Current state:", GetCurrentState)>>,
              certainty |-> GetOr(analysis.certainty, 5000)]

\* _recursive_level (src/actual_r3.py:126-149).  Its first statement reads
\* self._analyze_thinking_patterns (line 130).
RecursiveLevel(reflexive, oracle) ==
    LET patterns == AnalyzeThinkingPatterns(reflexive, oracle)
        recursions == IdentifyRecursions(patterns)
        fixed_points == FindFixedPoints(recursions)
    IN  IF ~HasMethod("_analyze_thinking_patterns")
        THEN Raised("AttributeError")
        ELSE [level |-> "recursive",
              input |-> reflexive.level,
              patterns |-> patterns,
              insights |-> <<Insight("Thinking patterns:", patterns.pattern_types),
                             Insight("Recursive depth:", <<"#">>),
                             Insight("Fixed points found:", <<"#">>)>>,
              certainty |-> GetOr(patterns.certainty, 6000)]

\* The handlers a proposal carries under "implementation"
\* (src/actual_r3.py:166, 176, 186): methods of the engine that src/ does not
\* hold, one per improvement kind.  A handler is its name here; invoked with
\* its proposal by _apply_actual_improvements it returns or raises.
ImplementDepthIncrease == "_implement_depth_increase"
ImplementCertaintyImprovement == "_implement_certainty_improvement"
ImplementPatternOptimization == "_implement_pattern_optimization"

\* _regenerative_level (src/actual_r3.py:151-195); it has no "insights" key.
\* current_depth is self.baselines["reasoning_depth"] at the call.  The dict
\* of the first proposal is built entry by entry and its last entry reads
\* self._implement_depth_increase (line 166): on the shipped engine the
\* level raises there, for every argument.
RegenerativeLevel(recursive, current_depth) ==
    LET target_depth == Min(10, current_depth + 1)
        imp1 == <<[type |-> "increase_reasoning_depth", to |-> target_depth,
                   impact |-> 1500,
                   implementation |-> ImplementDepthIncrease]>>
        imp2 == IF recursive.certainty < CertaintyThreshold
                THEN <<[type |-> "improve_certainty", to |-> CertaintyThreshold,
                        impact |-> 1000,
                        implementation |-> ImplementCertaintyImprovement]>>
                ELSE <<>>
        imp3 == IF recursive.patterns.inefficient_patterns # <<>>
                THEN <<[type |-> "optimize_patterns", to |-> 0, impact |-> 2000,
                        implementation |-> ImplementPatternOptimization]>>
                ELSE <<>>
    IN  IF ~HasMethod(ImplementDepthIncrease) THEN Raised("AttributeError")
        ELSE [level |-> "regenerative",
              input |-> recursive.level,
              improvements |-> imp1 \o imp2 \o imp3,
              insights |-> <<>>,
              certainty |-> 7000]

\* np.mean(history[-5:]) >= target, as sum >= 5 * target   (src/actual_r3.py:201-203)
LastN(s, n) == SubSeq(s, Max(1, Len(s) - n + 1), Len(s))
AvgEmergenceMeetsTarget ==
    /\ Len(emergence_history) >= 5
    /\ SumSeq(LastN(emergence_history, 5)) >= 5 * EmergenceTarget

\* _transcendent_level (src/actual_r3.py:197-228).  The optional framework
\* is a sequence: empty for None, else the one record.  The branch taken
\* when the mean meets the target starts by calling
\* self._generate_new_framework (line 205): on the shipped engine it raises
\* there; the other branch calls no method.
TranscendentLevel(regenerative) ==
    IF AvgEmergenceMeetsTarget
    THEN IF ~HasMethod("_generate_new_framework") THEN Raised("AttributeError")
         ELSE [level |-> "transcendent",
               input |-> regenerative.level,
               breakthrough |-> TRUE,
               framework |-> <<GenerateNewFramework(regenerative)>>,
               insights |-> <<Insight("New framework created:",
                                      <<GenerateNewFramework(regenerative).name>>),
                              Insight("Emergence threshold met:", <<"#">>),
                              Insight("Transcendent capability achieved", <<>>)>>,
               certainty |-> 8000]
    ELSE [level |-> "transcendent",
          input |-> regenerative.level,
          breakthrough |-> FALSE,
          framework |-> <<>>,
          insights |-> <<Insight("Emergence insufficient:", <<"#">>),
                         Insight("Continue recursive refinement", <<>>)>>,
          certainty |-> 5000]

\* _calculate_actual_emergence counting a level whose certainty is exactly 0.7.
MutCalculateActualEmergence(levels) ==
    LET novel_patterns ==
            UNION {{levels[k].insights[i] :
                       i \in {j \in 1..Len(levels[k].insights) :
                                 TextNovel(levels[k].insights[j])}} :
                   k \in 1..Len(levels)}
        unique_patterns == Cardinality(novel_patterns)
        depth_factor == Cardinality({k \in 1..Len(levels) :
                                        levels[k].certainty >= 7000})
        total_insights == SumSeq([k \in 1..Len(levels) |-> Len(levels[k].insights)])
    IN  IF unique_patterns > 0
        THEN ((Log2U(1 + unique_patterns) * SqrtU(total_insights)) \div Unit)
             * depth_factor
        ELSE 0

\* _calculate_actual_emergence (src/actual_r3.py:230-257).  Distinct texts have
\* distinct digests here.
CalculateActualEmergence(levels) ==
    LET novel_patterns ==
            UNION {{levels[k].insights[i] :
                       i \in {j \in 1..Len(levels[k].insights) :
                                 TextNovel(levels[k].insights[j])}} :
                   k \in 1..Len(levels)}
        unique_patterns == Cardinality(novel_patterns)
        depth_factor == Cardinality({k \in 1..Len(levels) :
                                        levels[k].certainty > 7000})
        total_insights == SumSeq([k \in 1..Len(levels) |-> Len(levels[k].insights)])
    IN  IF unique_patterns > 0
        THEN ((Log2U(1 + unique_patterns) * SqrtU(total_insights)) \div Unit)
             * depth_factor
        ELSE 0

\* (mutant) a table whose low-emergence entry is a penalty
MutEmergenceMultiplier(emergence) ==
    IF emergence >= 2 * Unit THEN 15000
    ELSE IF emergence >= Unit THEN 12000
    ELSE 0 - 8000

\* the emergence multiplier of _calculate_lambda_impact (src/actual_r3.py:266-271)
EmergenceMultiplier(emergence) ==
    IF emergence >= 2 * Unit THEN 15000
    ELSE IF emergence >= Unit THEN 12000
    ELSE 8000

\* _calculate_lambda_impact (src/actual_r3.py:259-279)
CalculateLambdaImpact(emergence) ==
    LET base_growth == LambdaGrowthTarget
        multiplier == EmergenceMultiplier(emergence)
        depth_multiplier == Unit + Len(cycles) * 500
    IN  (((base_growth * multiplier) \div Unit) * depth_multiplier) \div Unit

\* The name `emergent` read at src/actual_r3.py:80 is bound nowhere: not a
\* parameter, a local or a module global.  Evaluating it raises NameError.
EmergentDefined == FALSE

\* self._extract_actual_improvements(levels) (src/actual_r3.py:83), a method
\* src/ does not hold: the proposals of the level that made any, the
\* regenerative one.
ExtractActualImprovements(levels) == levels[3].improvements

\* _apply_actual_improvements (src/actual_r3.py:281-297): one log entry per
\* improvement, a result when its handler returns and an error when it
\* raises; fails holds the handlers that raise.
ApplyActualImprovements(improvements, fails) ==
    [i \in 1..Len(improvements) |->
        [improvement |-> improvements[i].type,
         outcome |-> IF improvements[i].implementation \in fails
                     THEN "error" ELSE "result"]]

\* the baseline the handler _implement_depth_increase leaves when it returns
DepthAfter(improvements, fails) ==
    IF ImplementDepthIncrease \in fails THEN reasoning_depth
    ELSE improvements[1].to

\* ReflectionCycle (src/actual_r3.py:15-31, 78-88); emergent is the value
\* the name of line 80 would have, were it bound.
NewCycle(query, context, levels, improvements, emergence, lambda_impact, emergent) ==
    [cycle_id |-> Len(cycles),
     level |-> IF emergent THEN "TRANSCENDENT" ELSE "REGENERATIVE",
     input_state |-> [query |-> query, context |-> context],
     reflections |-> [k \in 1..Len(levels) |-> levels[k].level],
     improvements |-> improvements,
     emergence_score |-> emergence,
     lambda_impact |-> lambda_impact]

\* The four level calls of reflect (src/actual_r3.py:56-66), in the order they
\* are made: what each call returned, up to the first one that raised, which
\* is the last entry then.  Each level's record keeps, as "input", the level
\* whose output it was handed.
RunLevels(query, context, valid, oracle) ==
    LET reflexive == ReflexiveLevel(query, context, valid)
        recursive == RecursiveLevel(reflexive, oracle)
        regenerative == RegenerativeLevel(recursive, reasoning_depth)
        transcendent == TranscendentLevel(regenerative)
    IN  IF IsRaised(reflexive) THEN <<reflexive>>
        ELSE IF IsRaised(recursive) THEN <<reflexive, recursive>>
        ELSE IF IsRaised(regenerative)
        THEN <<reflexive, recursive, regenerative>>
        ELSE <<reflexive, recursive, regenerative, transcendent>>

\* whether one of the level calls raised
LevelRaised(run) == IsRaised(run[Len(run)])

\* (mutant) Lambda_total is raised by the smallest impact before the levels
\* are run
MutLambdaAfter(run) ==
    IF LevelRaised(run) THEN lambda_total + CalculateLambdaImpact(0)
    ELSE lambda_total
         + CalculateLambdaImpact(CalculateActualEmergence(run))

\* self.lambda_total after a reflect() call whose levels made the run:
\* lines 69-74 are reached when all four levels returned
LambdaAfter(run) ==
    IF LevelRaised(run) THEN lambda_total
    ELSE lambda_total
         + CalculateLambdaImpact(CalculateActualEmergence(run))

\* reflect (src/actual_r3.py:51-105), as any caller sees it.  A call that
\* raises inside a level leaves the engine as it was.  One whose levels
\* return updates Lambda_total and the emergence history (lines 73-75) and
\* then evaluates `emergent` (line 80).  r3_last keeps what the call found
\* and did: the levels that returned, and what lines 69-70 computed when
\* they were reached.
ReflectCall(query, context, valid, oracle) ==
    \E run \in {RunLevels(query, context, valid, oracle)} :
    LET levels == run
        returned == IF LevelRaised(run) THEN SubSeq(run, 1, Len(run) - 1)
                    ELSE run
        emergence == CalculateActualEmergence(levels)
        lambda_impact == CalculateLambdaImpact(emergence)
        improvements == ExtractActualImprovements(levels)
        found == [query |-> query,
                  ran |-> [k \in 1..Len(returned) |->
                              [level |-> returned[k].level,
                               input |-> returned[k].input,
                               insights |-> returned[k].insights,
                               certainty |-> returned[k].certainty]],
                  proposed |-> IF Len(returned) >= 3
                               THEN returned[3].improvements ELSE <<>>,
                  old_lambda |-> lambda_total,
                  log_before |-> improvement_log,
                  history_before |-> emergence_history,
                  depth_before |-> reasoning_depth]
    IN  /\ r3_calls < MaxCalls
        /\ r3_calls' = r3_calls + 1
        /\ UNCHANGED r3_build
        /\ lambda_total' = LambdaAfter(run)
        /\ IF LevelRaised(run)
           THEN /\ UNCHANGED <<emergence_history, cycles, improvement_log,
                               reasoning_depth>>
                /\ r3_last' = found @@ [outcome |-> run[Len(run)].raised]
           ELSE /\ emergence_history' = Append(emergence_history, emergence)
                /\ IF EmergentDefined
                   THEN \E emergent \in BOOLEAN,
                           fails \in SUBSET {ImplementDepthIncrease,
                                             ImplementCertaintyImprovement,
                                             ImplementPatternOptimization} :
                          /\ cycles' = Append(cycles,
                                 NewCycle(query, context, levels, improvements,
                                          emergence, lambda_impact, emergent))
                          /\ improvement_log' = improvement_log
                                 \o ApplyActualImprovements(improvements, fails)
                          /\ reasoning_depth' = DepthAfter(improvements, fails)
                   ELSE UNCHANGED <<cycles, improvement_log, reasoning_depth>>
                /\ r3_last' = found @@
                      [outcome |-> IF EmergentDefined THEN "returned"
                                   ELSE "NameError",
                       emergence |-> emergence,
                       lambda_impact |-> lambda_impact,
                       breakthrough |-> levels[4].breakthrough,
                       framework |-> levels[4].framework,
                       flagged |-> levels[2].patterns.inefficient_patterns]

\* a reflect() call made on the engine directly
Reflect(query, context, valid, oracle) ==
    /\ ReflectCall(query, context, valid, oracle)
    /\ UNCHANGED <<groundvars, reasonvars, probe, app, system>>

\* __init__ (src/actual_r3.py:36-49)
R3Fresh ==
    /\ lambda_total = InitialLambda
    /\ cycles = <<>>
    /\ emergence_history = <<>>
    /\ improvement_log = <<>>
    /\ reasoning_depth = InitialDepth
    /\ r3_calls = 0
    /\ r3_last = [outcome |-> "none"]

\* the engine src/ holds
R3Init == R3Fresh /\ r3_build = "shipped"

\* either engine
R3BuildsInit == R3Fresh /\ r3_build \in R3Builds

R3Next ==
    \E query \in R3Queries, context \in R3Contexts, oracle \in ThinkingPatterns :
        \E valid \in [1..Len(RecExtractRelations(MetaQuery(query))) -> BOOLEAN] :
            Reflect(query, context, valid, oracle)

\* ---- the levels called on their own

\* The arguments _regenerative_level is called with: the certainty and the
\* inefficient patterns of a recursive-level record, and the depth baseline
\* the engine holds at the call.
LevelCertainties == {5000, 7000, 9000}
LevelDepths == {2, 9, 10}
RegenerativeArguments ==
    {[kind |-> "_regenerative_level", certainty |-> c, flagged |-> f,
      depth |-> d] :
        c \in LevelCertainties, f \in {<<>>, <<"loop">>}, d \in LevelDepths}

\* _regenerative_level(recursive, context) called on the engine
CallRegenerativeLevel ==
    /\ probe.kind = "_regenerative_level"
    /\ "result" \notin DOMAIN probe
    /\ probe' = probe @@
          [result |->
              RegenerativeLevel(
                  [level |-> "recursive", certainty |-> probe.certainty,
                   patterns |-> [inefficient_patterns |-> probe.flagged]],
                  probe.depth)]
    /\ UNCHANGED <<r3vars, groundvars, reasonvars, app, system>>

\* _transcendent_level(regenerative, context) called on the engine, whose
\* emergence history the level reads
CallTranscendentLevel ==
    /\ probe.kind = "_transcendent_level"
    /\ "result" \notin DOMAIN probe
    /\ probe' = probe @@
          [history |-> emergence_history,
           result |-> TranscendentLevel([level |-> "regenerative"])]
    /\ UNCHANGED <<r3vars, groundvars, reasonvars, app, system>>

\* the calls made on the engine src/ holds: reflect() and the regenerative
\* level on its own
ShippedArguments == {[kind |-> "none"]} \cup RegenerativeArguments
ShippedNext == R3Next \/ CallRegenerativeLevel

\* the two levels that read the engine's state, called on their own
LevelArguments == RegenerativeArguments \cup {[kind |-> "_transcendent_level"]}
LevelsNext == CallRegenerativeLevel \/ CallTranscendentLevel

\* An engine whose emergence history holds up to five samples: those that
\* many reflect() calls of the completed engine leave, or what a caller of
\* the shipped engine has put there.  On the completed engine each call
\* appends one emergence sample and adds its impact to Lambda_total
\* (src/actual_r3.py:73-75) and none of them records a cycle; with fewer
\* than five earlier samples the Transcendent level takes the branch without
\* a framework, so a call's emergence is decided by its query and thinking
\* patterns alone.  For the queries and patterns of TranscendentNext, with
\* no context: 0 for "Optimization cycle 1" with the pattern type "linear",
\* 2.8284 when one of the query and the pattern type holds "create", 4.4829
\* for "create new plan" with the pattern type "create".  r3_calls counts
\* the calls made from this state on.
WindowSize == 5
EarlierEmergences == {0, 28284, 44827}
EarlierHistories == UNION {[1..n -> EarlierEmergences] : n \in 0..WindowSize}
TranscendentInit ==
    /\ cycles = <<>>
    /\ emergence_history \in EarlierHistories
    /\ lambda_total = InitialLambda
          + SumSeq([i \in 1..Len(emergence_history) |->
                       CalculateLambdaImpact(emergence_history[i])])
    /\ improvement_log = <<>>
    /\ reasoning_depth = InitialDepth
    /\ r3_build \in R3Builds
    /\ r3_calls = 0
    /\ r3_last = [outcome |-> "none"]

TranscendentQueries ==
    {<<"Optimization", "cycle", "1">>, <<"create", "new", "plan">>}
TranscendentPatterns ==
    {tp \in ThinkingPatterns : tp.certainty = 9000}
TranscendentNext ==
    \/ \E query \in TranscendentQueries, oracle \in TranscendentPatterns :
          \E valid \in [1..Len(RecExtractRelations(MetaQuery(query))) -> BOOLEAN] :
              Reflect(query, "None", valid, oracle)
    \/ CallTranscendentLevel

-----------------------------------------------------------------------------
(* Grounding: AxiomaticGrounding / LogicalStatement (src/axioms.py) and    *)
(* AxiomSystem (src/src/axioms.py).                                        *)

\* The statements grounded in the model.
GroundStatements ==
    {<<"A", "=", "A">>,
     <<"John", "is", "a", "teacher">>,
     <<"a", "and", "not", "a">>,
     <<"paradox">>}

\* A proof step.  text and num are what the narrative "result" interpolates;
\* certainty is NoValue when the step has no "certainty" key.
Step(axiom, transformation, result, text, num, certainty) ==
    [axiom |-> axiom, transformation |-> transformation, result |-> result,
     text |-> text, num |-> num, certainty |-> certainty]

\* axiom_rules of LogicalStatement._valid_transformation (src/axioms.py:31-37):
\* .get(axiom, []) gives an axiom without an entry the empty vocabulary.
AxiomRules(axiom) ==
    CASE axiom = "A2" -> {"identity", "reflexive", "symmetric", "transitive"}
      [] axiom = "A3" -> {"negation", "contradiction_elimination"}
      [] axiom = "A4" -> {"disjunction", "choice", "partition"}
      [] axiom = "A5" -> {"conservation", "invariance", "symmetry"}
      [] axiom = "A6" -> {"composition", "hierarchy", "emergence_detection"}
      [] OTHER -> {}

\* _valid_transformation (src/axioms.py:29-38)
ValidTransformation(axiom, transformation) == transformation \in AxiomRules(axiom)

\* LogicalStatement.verify_proof (src/axioms.py:19-27)
VerifyProof(proof_steps) ==
    \A i \in 1..Len(proof_steps) :
        ValidTransformation(proof_steps[i].axiom, proof_steps[i].transformation)

\* LogicalStatement.__post_init__ (src/axioms.py:14-17): the digest of
\* "statement|axiom:transformation|...", modelled by the text digested.
StatementHash(statement, proof_steps) ==
    [statement |-> statement,
     proof |-> [i \in 1..Len(proof_steps) |->
                   <<proof_steps[i].axiom, proof_steps[i].transformation>>]]

\* LogicalStatement(...) (src/axioms.py:6-17)
LogicalStatement(statement, proof_steps, certainty) ==
    [statement |-> statement, proof_steps |-> proof_steps,
     certainty |-> certainty, hash |-> StatementHash(statement, proof_steps)]

\* any(op in statement for op in ['=', '>', '<', '+', '*'])   (src/axioms.py:85)
MathWords == {"="}
HasMathOp(statement) == \E i \in 1..Len(statement) : statement[i] \in MathWords

\* What sympy answers for a statement with an operator: sympify raises
\* ("raises"), the expression simplifies to false ("false"), or anything
\* else, a raising simplify_logic included ("other").
SympyOutcomes == {"raises", "false", "other"}

\* _parse_to_logic (src/axioms.py:80-92)
ParseToLogic(statement, sympy) ==
    IF HasMathOp(statement)
    THEN IF sympy = "raises"
         THEN [type |-> "raw", expr |-> "none", text |-> statement]
         ELSE [type |-> "mathematical", expr |-> sympy, text |-> <<>>]
    ELSE [type |-> "predicate", expr |-> "none", text |-> statement]

\* AxiomaticGrounding._has_contradiction (src/axioms.py:141-152)
ActHasContradiction(parsed) ==
    IF parsed.type = "mathematical" THEN parsed.expr = "false" ELSE FALSE

\* AxiomaticGrounding._generate_proof (src/axioms.py:94-139)
ActGenerateProof(parsed) ==
    <<Step("A1", "existential", "Statement exists as conscious content",
           <<>>, 0, Unit),
      Step("A2", "identity", "Statement is self-identical", <<>>, 0, Unit)>>
    \o (IF ActHasContradiction(parsed)
        THEN <<Step("A3", "contradiction_elimination",
                    "Contradiction resolved via law of non-contradiction",
                    <<>>, 0, Unit)>>
        ELSE <<>>)
    \o <<Step("A4", "disjunction", "Statement or its negation must be true",
              <<>>, 0, Unit),
         Step("A5", "conservation", "Information in statement is conserved",
              <<>>, 0, 9900)>>

RECURSIVE ProdCertainty(_)
\* the product of step.get("certainty", 0.5) over the steps
ProdCertainty(proof_steps) ==
    IF proof_steps = <<>> THEN Unit
    ELSE (GetOr(Head(proof_steps).certainty, 5000)
          * ProdCertainty(Tail(proof_steps))) \div Unit

\* AxiomaticGrounding._calculate_certainty (src/axioms.py:154-167)
ActCalculateCertainty(proof_steps) ==
    IF proof_steps = <<>> THEN 0
    ELSE LET certainty == ProdCertainty(proof_steps)
             depth_bonus == Min(3000, Len(proof_steps) * 500)
         IN  Min(Unit, certainty + depth_bonus)

\* the minimal grounding of src/axioms.py:73-78
MinimalGrounding(statement) ==
    LogicalStatement(statement,
                     <<Step("A1", "existential", "unproven", <<>>, 0, NoValue)>>,
                     1000)

\* (mutant) the verification result is not consulted
MutActGroundProof(statement, proof_steps) ==
    [generated |-> proof_steps,
     verified |-> TRUE,
     value |-> LogicalStatement(statement, proof_steps,
                                ActCalculateCertainty(proof_steps))]

\* AxiomaticGrounding.ground_statement from the generated proof on
\* (src/axioms.py:56-78): the value returned, with the proof that was generated
\* and whether it verified.
ActGroundProof(statement, proof_steps) ==
    LET certainty == ActCalculateCertainty(proof_steps)
        grounded == LogicalStatement(statement, proof_steps, certainty)
    IN  [generated |-> proof_steps,
         verified |-> VerifyProof(grounded.proof_steps),
         value |-> IF VerifyProof(grounded.proof_steps) THEN grounded
                   ELSE MinimalGrounding(statement)]

\* AxiomaticGrounding.ground_statement (src/axioms.py:47-78)
ActGroundStatement(statement, sympy) ==
    ActGroundProof(statement, ActGenerateProof(ParseToLogic(statement, sympy)))

\* the call AxiomaticGrounding.ground_statement(statement, context), as any
\* caller sees it
GroundActualCall(statement, sympy) ==
    LET r == ActGroundStatement(statement, sympy)
    IN  /\ proof_history' = IF r.verified THEN Append(proof_history, r.value)
                            ELSE proof_history
        /\ ground_last' = [op |-> "AxiomaticGrounding.ground_statement",
                           outcome |-> "returned",
                           statement |-> statement,
                           generated |-> r.generated,
                           value |-> r.value]
        /\ UNCHANGED <<proof_cache, grounding_history, clock>>

\* a ground_statement call made on the grounder directly
GroundActual(statement, sympy) ==
    /\ GroundActualCall(statement, sympy)
    /\ UNCHANGED <<r3vars, reasonvars, probe, app, system>>

\* ---- AxiomSystem (src/src/axioms.py)

\* contradiction_phrases (src/src/axioms.py:142-145), each a pair of words
ContradictionPhrases ==
    {<<"and", "not">>, <<"but", "not">>, <<"however", "not">>,
     <<"although", "not">>, <<"false", "true">>, <<"true", "false">>,
     <<"yes", "no">>, <<"no", "yes">>}

\* words holding "contradiction" or "paradox"
ParadoxWords == {"contradiction", "paradox"}

\* AxiomSystem._has_contradiction (src/src/axioms.py:138-156)
SysHasContradiction(statement) ==
    \/ \E i \in 1..(Len(statement) - 1) :
          <<Lower(statement[i]), Lower(statement[i + 1])>> \in ContradictionPhrases
    \/ \E i \in 1..Len(statement) : Lower(statement[i]) \in ParadoxWords

RECURSIVE SumTokLen(_)
SumTokLen(statement) ==
    IF statement = <<>> THEN 0
    ELSE TokLen(Head(statement)) + SumTokLen(Tail(statement))

\* len(statement.encode('utf-8')) of words joined by single blanks
InfoContent(statement) ==
    IF statement = <<>> THEN 0 ELSE SumTokLen(statement) + Len(statement) - 1

\* AxiomSystem._generate_proof (src/src/axioms.py:82-136); the emergence
\* potential len(split) / 10 is kept in hundredths.
SysGenerateProof(statement) ==
    <<Step("A1", "existential", "exists as conscious content", statement, 0,
           Unit),
      Step("A2", "identity", "Statement is self-identical", <<>>, 0, Unit)>>
    \o (IF SysHasContradiction(statement)
        THEN <<Step("A3", "contradiction_elimination",
                    "Contradiction resolved", <<>>, 0, Unit)>>
        ELSE <<>>)
    \o <<Step("A4", "disjunction", "Statement or its negation holds",
              <<>>, 0, Unit),
         Step("A5", "conservation", "Information conserved (bytes)",
              <<>>, InfoContent(statement), 9900),
         Step("A6", "emergence_potential", "Emergence potential:",
              <<>>, Len(statement) * 10, 9500)>>

\* len(self.axioms) (src/src/axioms.py:32-48)
NumAxioms == 6

AxiomsUsed(proof_steps) == {proof_steps[i].axiom : i \in 1..Len(proof_steps)}

\* (mutant) the total is not capped at 1.0
MutSysCalculateCertainty(proof_steps) ==
    IF proof_steps = <<>> THEN 0
    ELSE ProdCertainty(proof_steps) + Min(3000, Len(proof_steps) * 500)
         + (Cardinality(AxiomsUsed(proof_steps)) * 1000) \div NumAxioms

\* AxiomSystem._calculate_certainty (src/src/axioms.py:158-181)
SysCalculateCertainty(proof_steps) ==
    IF proof_steps = <<>> THEN 0
    ELSE LET certainty == ProdCertainty(proof_steps)
             depth_bonus == Min(3000, Len(proof_steps) * 500)
             consistency_bonus ==
                 (Cardinality(AxiomsUsed(proof_steps)) * 1000) \div NumAxioms
             total == Min(Unit, certainty + depth_bonus + consistency_bonus)
         IN  IF total > 8000 /\ Len(proof_steps) >= 4
             THEN Max(total, 8500) ELSE total

\* AxiomSystem._hash_proof (src/src/axioms.py:183-191): the digest of the JSON
\* text of statement, steps and utcnow(), modelled by the text digested.
HashProof(statement, proof_steps, now) ==
    [statement |-> statement, steps |-> proof_steps, timestamp |-> now]

\* the history kept in memory (src/src/axioms.py:76-78)
HistoryCap == 1000

\* AxiomSystem.ground_statement (src/src/axioms.py:50-80).  utcnow() is read
\* twice, in _hash_proof and for the timestamp; d1 and d2 are the time that
\* passed before each reading.
GroundSystemCall(statement, d1, d2) ==
    LET proof_steps == SysGenerateProof(statement)
        certainty == SysCalculateCertainty(proof_steps)
        proof_hash == HashProof(statement, proof_steps, clock + d1)
        grounded == [statement |-> statement, proof_steps |-> proof_steps,
                     certainty |-> certainty, hash |-> proof_hash,
                     timestamp |-> clock + d1 + d2,
                     axioms_used |-> AxiomsUsed(proof_steps)]
        appended == Append(grounding_history, grounded)
    IN  /\ Len(grounding_history) < MaxGroundings
        /\ clock + d1 + d2 <= MaxClock
        /\ clock' = clock + d1 + d2
        /\ proof_cache' = [h \in DOMAIN proof_cache \cup {proof_hash} |->
                              IF h = proof_hash THEN grounded ELSE proof_cache[h]]
        /\ grounding_history' =
              IF Len(appended) > HistoryCap THEN LastN(appended, HistoryCap)
              ELSE appended
        /\ ground_last' = [op |-> "AxiomSystem.ground_statement",
                           outcome |-> "returned",
                           statement |-> statement,
                           generated |-> proof_steps,
                           value |-> grounded]
        /\ UNCHANGED proof_history

\* a ground_statement call on the AxiomSystem
GroundSystem(statement, d1, d2) ==
    /\ GroundSystemCall(statement, d1, d2)
    /\ UNCHANGED <<r3vars, reasonvars, probe, app, system>>

\* AxiomSystem.verify_proof (src/src/axioms.py:193-195) on the hash of the
\* last grounding, or on a hash with a later timestamp
SysVerifyProof(later) ==
    /\ ground_last.op = "AxiomSystem.ground_statement"
    /\ LET h == IF later
                THEN [ground_last.value.hash EXCEPT !.timestamp = @ + 1]
                ELSE ground_last.value.hash
       IN  ground_last' = [op |-> "AxiomSystem.verify_proof",
                           outcome |-> "returned",
                           hash |-> h,
                           ok |-> h \in DOMAIN proof_cache]
    /\ UNCHANGED <<proof_history, proof_cache, grounding_history, clock>>
    /\ UNCHANGED <<r3vars, reasonvars, probe, app, system>>

GroundInit ==
    /\ proof_history = <<>>
    /\ proof_cache = <<>>
    /\ grounding_history = <<>>
    /\ clock = 0
    /\ ground_last = [op |-> "none"]

GroundNext ==
    \/ \E statement \in GroundStatements, sympy \in SympyOutcomes :
          GroundActual(statement, sympy)
    \/ \E statement \in GroundStatements, d1 \in 0..1, d2 \in 0..1 :
          GroundSystem(statement, d1, d2)
    \/ \E later \in BOOLEAN : SysVerifyProof(later)

\* ---- LogicalStatement as a data type: proofs built by a caller

\* the (axiom, transformation) pairs the proofs are built from
ProbePairs ==
    {<<"A1", "existential">>, <<"A2", "identity">>, <<"A2", "symmetric">>,
     <<"A3", "identity">>, <<"A3", "negation">>, <<"A6", "composition">>,
     <<"A6", "emergence_potential">>, <<"A7", "identity">>}

ProbeSteps == {Step(pr[1], pr[2], "step", <<>>, 0, Unit) : pr \in ProbePairs}

ProbeProofs ==
    UNION {[1..n -> ProbeSteps] : n \in 0..MaxProofLen}

\* LogicalStatement.verify_proof() on a statement holding the proof
CallVerifyProof ==
    /\ ground_last.op = "LogicalStatement"
    /\ ground_last' = [op |-> "LogicalStatement.verify_proof",
                       outcome |-> "returned",
                       proof_steps |-> ground_last.proof_steps,
                       ok |-> VerifyProof(ground_last.proof_steps)]
    /\ UNCHANGED <<proof_history, proof_cache, grounding_history, clock>>
    /\ UNCHANGED <<r3vars, reasonvars, probe, app, system>>

\* ground_statement from line 56 on, _generate_proof having produced the proof
CallGroundProof ==
    /\ ground_last.op = "LogicalStatement"
    /\ LET r == ActGroundProof(ground_last.statement, ground_last.proof_steps)
       IN  /\ proof_history' = IF r.verified
                               THEN Append(proof_history, r.value)
                               ELSE proof_history
           /\ ground_last' = [op |-> "AxiomaticGrounding.ground_statement",
                              outcome |-> "returned",
                              statement |-> ground_last.statement,
                              generated |-> r.generated,
                              value |-> r.value]
    /\ UNCHANGED <<proof_cache, grounding_history, clock>>
    /\ UNCHANGED <<r3vars, reasonvars, probe, app, system>>

ProofInit ==
    /\ proof_history = <<>>
    /\ proof_cache = <<>>
    /\ grounding_history = <<>>
    /\ clock = 0
    /\ ground_last \in {[op |-> "LogicalStatement",
                         statement |-> <<"A", "=", "A">>,
                         proof_steps |-> p] : p \in ProbeProofs}

ProofNext == CallVerifyProof \/ CallGroundProof

-----------------------------------------------------------------------------
(* ReasoningEngine (src/src/reasoning.py).  The module calls json.dumps in  *)
(* _generate_cache_key and _hash_result and never imports json, so both    *)
(* raise NameError, and with them every reason_about and every             *)
(* _perform_reasoning call.  A raised exception is a record [raised |-> e].*)

\* The queries reasoned about.
ReasonQueries ==
    {<<"John", "is", "a", "teacher">>,
     <<"AND", "is", "not", "paradox">>,
     <<"all", "planning">>}

\* The contexts: dicts of at most one item; a key is a str or an int.
ReasonContexts ==
    {<<>>,
     <<[kind |-> "int", key |-> "1", value |-> "x"]>>,
     <<[kind |-> "str", key |-> "1", value |-> "x"]>>}

ReasonDepths == {1, 3}

\* json.dumps(context, sort_keys=True): an int key is written as the string
\* of its digits.
JsonDumps(context) ==
    [i \in 1..Len(context) |-> <<context[i].key, context[i].value>>]

\* _generate_cache_key (src/src/reasoning.py:60-67): the digest of the JSON text
\* of query, depth and the digest of the context's JSON text; a digest is
\* modelled by the text digested.  The first json.dumps raises NameError.
GenerateCacheKey(query, context, depth) ==
    IF JsonImported
    THEN [query |-> query, depth |-> depth,
          context_hash |-> JsonDumps(context)]
    ELSE Raised("NameError")

\* the keys of self.concept_graph (src/src/reasoning.py:25-33)
Operators ==
    {"AND", "OR", "NOT", "IMPLIES", "IFF", "FORALL", "EXISTS", "EQUALS",
     "NOT_EQUALS"}

Quantifiers == {"all", "every", "some", "no", "none"}
Modalities == {"possible", "necessary", "impossible"}

\* word_lower.endswith(("ing", "ed"))
EndsIngEd(w) == Lower(w) \in {"planning"}

\* the branch of the if/elif chain a word takes (src/src/reasoning.py:118-137)
ComponentOf(w) ==
    CASE UpperFirst(w) /\ TokLen(w) > 2 -> "entities"
      [] Lower(w) \in RelationWords -> "relations"
      [] Lower(w) \in Quantifiers -> "quantifiers"
      [] Lower(w) \in Modalities -> "modalities"
      [] EndsIngEd(w) -> "actions"
      [] OTHER -> "none"

RECURSIVE WordsOf(_, _)
\* the words of one component, in query order; all but the entities are
\* appended in lower case
WordsOf(words, component) ==
    IF words = <<>> THEN <<>>
    ELSE (IF ComponentOf(Head(words)) = component
          THEN <<IF component = "entities" THEN Head(words)
                 ELSE Lower(Head(words))>>
          ELSE <<>>) \o WordsOf(Tail(words), component)

\* _extract_components (src/src/reasoning.py:102-139)
ExtractComponents(query) ==
    [entities |-> WordsOf(query, "entities"),
     relations |-> WordsOf(query, "relations"),
     quantifiers |-> WordsOf(query, "quantifiers"),
     modalities |-> WordsOf(query, "modalities"),
     actions |-> WordsOf(query, "actions"),
     attributes |-> <<>>]

\* the character before the blank inside each contradiction pattern
\* (src/src/reasoning.py:184-187)
PatternBeforeBlank == {"t", "d", "r", "e", "s", "o"}

\* the characters before the blanks of str(components): the words hold no
\* blank, so every blank follows a comma or a colon
ReprBeforeBlank == {",", ":"}

\* _check_contradictions (src/src/reasoning.py:179-189)
CheckContradictions(components) ==
    PatternBeforeBlank \cap ReprBeforeBlank # {}

\* the words that hold "then"
ThenWords == {"then", "Then"}

AllComponentWords(components) ==
    components.entities \o components.relations \o components.quantifiers
    \o components.modalities \o components.actions \o components.attributes

\* _find_patterns (src/src/reasoning.py:191-219): "if" is always in
\* str(components), inside the key 'quantifiers'
FindPatterns(components) ==
    (IF \E i \in 1..Len(AllComponentWords(components)) :
            AllComponentWords(components)[i] \in ThenWords
     THEN <<[type |-> "implication", certainty |-> 8000]>> ELSE <<>>)
    \o (IF components.quantifiers # <<>>
        THEN <<[type |-> "quantified", certainty |-> 7000]>> ELSE <<>>)
    \o (IF components.actions # <<>>
        THEN <<[type |-> "action", certainty |-> 6000]>> ELSE <<>>)

IsKnown(entity) == entity \in Operators
IsUnknown(entity) == entity \notin Operators

\* _base_reasoning (src/src/reasoning.py:141-177)
BaseReasoning(components) ==
    LET known == SelectSeq(components.entities, IsKnown)
        unknowns == SelectSeq(components.entities, IsUnknown)
        contradictions ==
            IF CheckContradictions(components)
            THEN <<"Logical contradiction detected">> ELSE <<>>
        patterns == FindPatterns(components)
    IN  [direct_inferences |->
             [i \in 1..Len(known) |->
                 [type |-> "entity_known", entity |-> known[i],
                  relations |-> <<"operator_", known[i]>>]],
         contradictions |-> contradictions,
         implications |-> <<>>,
         unknowns |-> unknowns,
         patterns_found |-> patterns,
         needs_refinement |->
             (Len(unknowns) > 0 \/ Len(contradictions) > 0 \/ Len(patterns) = 0)]

\* _hypothesize_entity, _resolve_contradiction, _explore_implications and
\* _extract_novel_insights are called by _recursive_refinement
\* (src/src/reasoning.py:227, 232, 236, 242) and defined nowhere: a call of
\* any of them raises AttributeError.
RefinementHelpersDefined == FALSE

\* The four helpers as they are described: a hypothesis record per unknown,
\* a resolution record per contradiction, an implication per concept one
\* hop from a known entity, and the refinement entries of distinct content.
HypothesizeEntity(unknown) == [kind |-> "hypothesis", about |-> unknown]
ResolveContradiction(contradiction) ==
    [kind |-> "resolution", about |-> contradiction]
ExploreImplications(base_result) ==
    [i \in 1..Len(base_result.direct_inferences) |->
        [kind |-> "implication",
         about |-> base_result.direct_inferences[i].entity]]

RECURSIVE Distinct(_, _)
Distinct(entries, seen) ==
    IF entries = <<>> THEN <<>>
    ELSE IF Head(entries) \in seen THEN Distinct(Tail(entries), seen)
    ELSE <<Head(entries)>> \o Distinct(Tail(entries), seen \cup {Head(entries)})
ExtractNovelInsights(refinements) == Distinct(refinements, {})

\* _recursive_refinement (src/src/reasoning.py:221-243).  The first helper
\* the call reaches is _hypothesize_entity when the base result holds an
\* unknown (line 227), _resolve_contradiction when it holds a contradiction
\* and no unknown (line 232), else _explore_implications, which is called
\* on every base result (line 236): on the engine as it is the call raises
\* AttributeError whatever it is given.
RecursiveRefinement(base_result, remaining_depth) ==
    IF ~RefinementHelpersDefined THEN Raised("AttributeError")
    ELSE
    LET refinements ==
            [i \in 1..Len(base_result.unknowns) |->
                HypothesizeEntity(base_result.unknowns[i])]
            \o [i \in 1..Len(base_result.contradictions) |->
                   ResolveContradiction(base_result.contradictions[i])]
            \o ExploreImplications(base_result)
    IN  [refinements |-> refinements,
         depth |-> remaining_depth,
         novel_insights |-> ExtractNovelInsights(refinements)]

\* _calculate_certainty (src/src/reasoning.py:245-266); refined is <<>> for None
\* and <<r>> for the dict r.
CalculateCertainty(base_result, refined) ==
    LET base_certainty == 7000
        unknowns_penalty == Len(base_result.unknowns) * 1000
        contradictions_penalty == Len(base_result.contradictions) * 2000
        refinement_bonus ==
            IF refined # <<>> /\ refined[1].refinements # <<>>
            THEN Min(3000, Len(refined[1].refinements) * 500) ELSE 0
        pattern_bonus == Len(base_result.patterns_found) * 500
        certainty == base_certainty - unknowns_penalty - contradictions_penalty
                     + refinement_bonus + pattern_bonus
    IN  Max(1000, Min(Unit, certainty))

\* the number of distinct digests of the insights (src/src/reasoning.py:277-280)
UniqueInsights(novel_insights) ==
    Cardinality({novel_insights[i] : i \in 1..Len(novel_insights)})

\* the emergence formula without the cap at 5.0
MutCalculateEmergence(base_result, refined, depth) ==
    IF refined = <<>> THEN 0
    ELSE IF refined[1].novel_insights = <<>> THEN 0
    ELSE LET unique_insights == UniqueInsights(refined[1].novel_insights)
             depth_factor == Unit + depth * 1000
             complexity == Len(base_result.patterns_found)
                           + Len(base_result.direct_inferences)
             complexity_factor == SqrtU(Max(1, complexity))
         IN  (((Log2U(1 + unique_insights) * depth_factor)
               \div Unit) * complexity_factor) \div Unit

\* _calculate_emergence (src/src/reasoning.py:268-291)
CalculateEmergence(base_result, refined, depth) ==
    IF refined = <<>> THEN 0
    ELSE IF refined[1].novel_insights = <<>> THEN 0
    ELSE LET unique_insights == UniqueInsights(refined[1].novel_insights)
             depth_factor == Unit + depth * 1000
             complexity == Len(base_result.patterns_found)
                           + Len(base_result.direct_inferences)
             complexity_factor == SqrtU(Max(1, complexity))
             emergence == (((Log2U(1 + unique_insights) * depth_factor)
                            \div Unit) * complexity_factor) \div Unit
         IN  Min(5 * Unit, emergence)

\* _hash_result (src/src/reasoning.py:294-301): the digest of the JSON text of
\* base and refined, modelled by the text digested.  Its json.dumps raises
\* NameError.
HashResult(base_result, refined) ==
    IF JsonImported THEN [base |-> base_result, refined |-> refined]
    ELSE Raised("NameError")

\* _perform_reasoning (src/src/reasoning.py:69-100); now is what time.time()
\* reads.  What _recursive_refinement raises (line 81) leaves the call
\* before anything else is computed.  The result dict is built item by
\* item, the hash last, so that what _hash_result raises (line 96) leaves
\* the call in place of the result.
PerformReasoning(query, context, depth, now) ==
    LET components == ExtractComponents(query)
        base_result == BaseReasoning(components)
        refined == IF depth > 1 /\ base_result.needs_refinement
                   THEN <<RecursiveRefinement(base_result, depth - 1)>>
                   ELSE <<>>
        hash == HashResult(base_result, refined)
    IN  IF refined # <<>> /\ IsRaised(refined[1]) THEN refined[1]
        ELSE IF IsRaised(hash) THEN hash
        ELSE [query |-> query,
              components |-> components,
              base_result |-> base_result,
              refined |-> refined,
              depth_used |-> depth,
              certainty |-> CalculateCertainty(base_result, refined),
              emergence |-> CalculateEmergence(base_result, refined, depth),
              timestamp |-> now,
              hash |-> hash]

\* self.reasoning_cache[cache_key] = result   (src/src/reasoning.py:49)
CacheStore(cache, key, result) ==
    [k \in DOMAIN cache \cup {key} |-> IF k = key THEN result ELSE cache[k]]

\* (mutant) the hit is counted before the key is computed
MutHitCountedFirst(stats, hit, result, depth, took) ==
    IF hit \/ IsRaised(result) THEN [stats EXCEPT !.cache_hits = @ + 1]
    ELSE [stats EXCEPT
             !.queries_processed = @ + 1,
             !.total_time = @ + took,
             !.avg_depth = (@ * stats.queries_processed + depth * Unit)
                               \div (stats.queries_processed + 1)]

\* (mutant) the query is counted as processed before it is reasoned about
MutProcessedCountedFirst(stats, hit, result, depth, took) ==
    IF hit THEN [stats EXCEPT !.cache_hits = @ + 1]
    ELSE [stats EXCEPT
             !.queries_processed = @ + 1,
             !.total_time = @ + took,
             !.avg_depth = (@ * stats.queries_processed + depth * Unit)
                               \div (stats.queries_processed + 1)]

\* self.performance_stats after a reason_about call (src/src/reasoning.py:40-56):
\* one more hit when the key is in the cache (line 42); as they were when
\* the key or the reasoning raised; else one more processed query, the time
\* taken and the running mean of the depths (lines 52-56).
StatsAfter(stats, hit, result, depth, took) ==
    IF hit THEN [stats EXCEPT !.cache_hits = @ + 1]
    ELSE IF IsRaised(result) THEN stats
    ELSE [stats EXCEPT
             !.queries_processed = @ + 1,
             !.total_time = @ + took,
             !.avg_depth = (@ * stats.queries_processed + depth * Unit)
                               \div (stats.queries_processed + 1)]

\* what a reason_about call does to the engine (src/src/reasoning.py:35-58).
\* The clock is read three times: at the start (line 37, now), for the
\* result's timestamp (line 95) and at the end (line 53); d1 and d2 are the
\* times between the readings.  A call that raises, in _generate_cache_key
\* (line 40) or in _perform_reasoning (line 46), leaves the cache and the
\* counters as they were.
ReasonAboutCall(query, context, depth, now, d1, d2) ==
    LET cache_key == GenerateCacheKey(query, context, depth)
        triple == <<query, context, depth>>
        repeated == triple \in DOMAIN reason_seen
        hit == ~IsRaised(cache_key) /\ cache_key \in DOMAIN reasoning_cache
        result ==
            IF IsRaised(cache_key) THEN cache_key
            ELSE IF hit THEN reasoning_cache[cache_key]
            ELSE PerformReasoning(query, context, depth, now + d1)
    IN  /\ reason_last.calls < MaxReasonCalls
        /\ reasoning_cache' =
              IF hit \/ IsRaised(result) THEN reasoning_cache
              ELSE CacheStore(reasoning_cache, cache_key, result)
        /\ performance_stats' =
              StatsAfter(performance_stats, hit, result, depth, d1 + d2)
        /\ reason_seen' =
              IF repeated THEN reason_seen
              ELSE [t \in DOMAIN reason_seen \cup {triple} |->
                       IF t = triple THEN result ELSE reason_seen[t]]
        /\ reason_last' =
              [op |-> "reason_about",
               calls |-> reason_last.calls + 1,
               query |-> query, context |-> context, depth |-> depth,
               hit |-> hit, result |-> result,
               repeated |-> repeated,
               first_result |-> IF repeated THEN reason_seen[triple]
                                ELSE result,
               stats_before |-> performance_stats,
               cache_before |-> reasoning_cache]

\* the time a reason_about call is seen to take: the two intervals when the
\* result is computed and stored, none when the call hits the cache or raises
ReasonAboutTakes(query, context, depth, d1, d2) ==
    LET cache_key == GenerateCacheKey(query, context, depth)
    IN  IF IsRaised(cache_key) THEN 0
        ELSE IF cache_key \in DOMAIN reasoning_cache THEN 0
        ELSE IF IsRaised(PerformReasoning(query, context, depth, clock))
        THEN 0
        ELSE d1 + d2

\* a reason_about call on the engine
ReasonAbout(query, context, depth, d1, d2) ==
    /\ ReasonAboutCall(query, context, depth, clock, d1, d2)
    /\ clock + ReasonAboutTakes(query, context, depth, d1, d2) <= MaxClock
    /\ clock' = clock + ReasonAboutTakes(query, context, depth, d1, d2)
    /\ UNCHANGED <<proof_history, proof_cache, grounding_history, ground_last>>
    /\ UNCHANGED <<r3vars, probe, app, system>>

\* get_stats (src/src/reasoning.py:308-316): the two figures computed from
\* the cache and the counters; the rate is a fraction of Unit.
GetStats ==
    [cache_size |-> Cardinality(DOMAIN reasoning_cache),
     cache_hit_rate |->
         (performance_stats.cache_hits * Unit)
             \div Max(1, performance_stats.queries_processed)]

ReasonInit ==
    /\ reasoning_cache = <<>>
    /\ performance_stats = [queries_processed |-> 0, cache_hits |-> 0,
                            avg_depth |-> 0, total_time |-> 0]
    /\ reason_seen = <<>>
    /\ reason_last = [op |-> "none", calls |-> 0]

ReasonNext ==
    \E query \in ReasonQueries, context \in ReasonContexts,
       depth \in ReasonDepths, d1 \in 0..1, d2 \in 0..1 :
        ReasonAbout(query, context, depth, d1, d2)

-----------------------------------------------------------------------------
(* The certainty computations on arguments of their own.                   *)

\* a list of n entries
Entries(n) == [i \in 1..n |-> "entry"]

\* a base result and a refinement with the given numbers of entries;
\* refinements = NoValue stands for refined = None
CountedBaseResult(unknowns, contradictions, patterns) ==
    [direct_inferences |-> <<>>, contradictions |-> Entries(contradictions),
     implications |-> <<>>, unknowns |-> Entries(unknowns),
     patterns_found |-> Entries(patterns),
     needs_refinement |-> (unknowns > 0 \/ contradictions > 0 \/ patterns = 0)]
CountedRefined(refinements) ==
    IF refinements = NoValue THEN <<>>
    ELSE <<[refinements |-> Entries(refinements), depth |-> 1,
            novel_insights |-> Entries(refinements)]>>

ProbeArguments ==
    {[kind |-> "AxiomSystem.ground_statement", statement |-> st] :
        st \in GroundStatements}
    \cup {[kind |-> "AxiomaticGrounding.ground_statement", statement |-> st,
           sympy |-> sy] : st \in GroundStatements, sy \in SympyOutcomes}
    \cup {[kind |-> "ReasoningEngine._perform_reasoning", query |-> q,
           depth |-> d] : q \in ReasonQueries, d \in ReasonDepths}
    \cup {[kind |-> "ReasoningEngine._calculate_certainty", unknowns |-> u,
           contradictions |-> c, patterns |-> pt, refinements |-> r] :
          u \in 0..MaxCount, c \in 0..MaxCount, pt \in 0..MaxCount,
          r \in {NoValue} \cup 0..MaxCount}
    \cup {[kind |-> "RecursiveReasoningEngine._calculate_certainty",
           unknowns |-> u, contradictions |-> c, refinements |-> r,
           depth |-> d] :
          u \in 0..MaxCount, c \in 0..MaxCount,
          r \in {NoValue} \cup 0..MaxCount, d \in RecDepths}
    \cup {[kind |-> "ActualR3Engine.reflect"]}
    \cup RegenerativeArguments
    \cup {[kind |-> "_transcendent_level"]}

\* AxiomSystem.ground_statement(...)["certainty"]
ProbeGroundSystem ==
    /\ probe.kind = "AxiomSystem.ground_statement"
    /\ "certainty" \notin DOMAIN probe
    /\ probe' = [kind |-> probe.kind, statement |-> probe.statement,
                 certainty |->
                     SysCalculateCertainty(SysGenerateProof(probe.statement))]
    /\ UNCHANGED <<r3vars, groundvars, reasonvars, app, system>>

\* AxiomaticGrounding.ground_statement(...).certainty, and the certainty
\* computed for the generated proof
ProbeGroundActual ==
    /\ probe.kind = "AxiomaticGrounding.ground_statement"
    /\ "certainty" \notin DOMAIN probe
    /\ LET r == ActGroundStatement(probe.statement, probe.sympy)
       IN  probe' = [kind |-> probe.kind, statement |-> probe.statement,
                     certainty |-> r.value.certainty,
                     generated |-> ActCalculateCertainty(r.generated)]
    /\ UNCHANGED <<r3vars, groundvars, reasonvars, app, system>>

\* the certainty of the result _perform_reasoning builds for reason_about,
\* or what the call raises
ProbePerformReasoning ==
    /\ probe.kind = "ReasoningEngine._perform_reasoning"
    /\ "certainty" \notin DOMAIN probe
    /\ "raised" \notin DOMAIN probe
    /\ LET result == PerformReasoning(probe.query, <<>>, probe.depth, clock)
       IN  probe' = IF IsRaised(result)
                    THEN [kind |-> probe.kind, query |-> probe.query,
                          depth |-> probe.depth, raised |-> result.raised]
                    ELSE [kind |-> probe.kind, query |-> probe.query,
                          depth |-> probe.depth,
                          certainty |-> result.certainty]
    /\ UNCHANGED <<r3vars, groundvars, reasonvars, app, system>>

\* ReasoningEngine._calculate_certainty(base_result, refined)
ProbeCalculateCertainty ==
    /\ probe.kind = "ReasoningEngine._calculate_certainty"
    /\ "certainty" \notin DOMAIN probe
    /\ probe' = [kind |-> probe.kind,
                 unknowns |-> probe.unknowns,
                 contradictions |-> probe.contradictions,
                 patterns |-> probe.patterns,
                 refinements |-> probe.refinements,
                 certainty |->
                     CalculateCertainty(
                         CountedBaseResult(probe.unknowns,
                                           probe.contradictions,
                                           probe.patterns),
                         CountedRefined(probe.refinements))]
    /\ UNCHANGED <<r3vars, groundvars, reasonvars, app, system>>

\* RecursiveReasoningEngine._calculate_certainty(result, depth) as it is
\* written: the function reads its arguments only, nothing of an engine.
\* The result holds the refinement under its key "refined", which the
\* computation does not read.
ProbeRecCalculateCertainty ==
    /\ probe.kind = "RecursiveReasoningEngine._calculate_certainty"
    /\ "certainty" \notin DOMAIN probe
    /\ probe' = [kind |-> probe.kind,
                 unknowns |-> probe.unknowns,
                 contradictions |-> probe.contradictions,
                 refinements |-> probe.refinements,
                 depth |-> probe.depth,
                 certainty |->
                     RecCalculateCertainty(
                         CountedBaseResult(probe.unknowns,
                                           probe.contradictions, 0),
                         probe.depth)]
    /\ UNCHANGED <<r3vars, groundvars, reasonvars, app, system>>

\* reflect() calls on the engine src/ holds, whose levels each compute a
\* certainty when they return
ProbeReflect ==
    /\ probe.kind = "ActualR3Engine.reflect"
    /\ R3Next

ProbeInit == probe \in ProbeArguments

ProbeNext ==
    \/ ProbeGroundSystem
    \/ ProbeGroundActual
    \/ ProbePerformReasoning
    \/ ProbeCalculateCertainty
    \/ ProbeRecCalculateCertainty
    \/ ProbeReflect
    \/ CallRegenerativeLevel
    \/ CallTranscendentLevel

-----------------------------------------------------------------------------
(* The emergence computations on arguments of their own.                   *)

\* a list of n insights of distinct content, the first of them once more at
\* the end when dup holds
NovelInsights(n, dup) ==
    [i \in 1..n |-> i] \o (IF dup /\ n > 0 THEN <<1>> ELSE <<>>)

\* refined for the emergence computations: None (NoValue), or a dict whose
\* novel_insights are NovelInsights(n, dup)
EmergenceRefined(n, dup) ==
    IF n = NoValue THEN <<>>
    ELSE <<[refinements |-> NovelInsights(n, dup), depth |-> 1,
            novel_insights |-> NovelInsights(n, dup)]>>

EmergenceArguments ==
    {[kind |-> "ReasoningEngine._calculate_emergence", insights |-> n,
      dup |-> dup, patterns |-> pt, depth |-> d] :
        n \in {NoValue} \cup 0..MaxCount, dup \in BOOLEAN,
        pt \in 0..MaxCount, d \in ReasonDepths}
    \cup {[kind |-> "RecursiveReasoningEngine._calculate_emergence",
           insights |-> n, dup |-> dup, depth |-> d] :
        n \in {NoValue, MaxTypes} \cup 0..MaxCount, dup \in BOOLEAN,
        d \in RecDepths}
    \cup {[kind |-> "ReasoningEngine.reason_about", query |-> q,
           depth |-> d] : q \in ReasonQueries, d \in ReasonDepths}

\* ReasoningEngine._calculate_emergence(base_result, refined, depth)
ProbeCalculateEmergence ==
    /\ probe.kind = "ReasoningEngine._calculate_emergence"
    /\ "emergence" \notin DOMAIN probe
    /\ LET base_result == CountedBaseResult(0, 0, probe.patterns)
           refined == EmergenceRefined(probe.insights, probe.dup)
       IN  probe' = [kind |-> probe.kind, insights |-> probe.insights,
                     dup |-> probe.dup, patterns |-> probe.patterns,
                     depth |-> probe.depth,
                     unrefined |-> (refined = <<>>),
                     novel |-> IF refined = <<>> THEN 0
                               ELSE Len(refined[1].novel_insights),
                     emergence |->
                         CalculateEmergence(base_result, refined, probe.depth)]
    /\ UNCHANGED <<r3vars, groundvars, reasonvars, app, system>>

\* RecursiveReasoningEngine._calculate_emergence(result, depth) as it is
\* written: the function reads its arguments only, nothing of an engine
ProbeRecCalculateEmergence ==
    /\ probe.kind = "RecursiveReasoningEngine._calculate_emergence"
    /\ "emergence" \notin DOMAIN probe
    /\ LET refined == EmergenceRefined(probe.insights, probe.dup)
       IN  probe' = [kind |-> probe.kind, insights |-> probe.insights,
                     dup |-> probe.dup, depth |-> probe.depth,
                     unrefined |-> (refined = <<>>),
                     novel |-> IF refined = <<>> THEN 0
                               ELSE Len(refined[1].novel_insights),
                     emergence |-> RecCalculateEmergence(refined, probe.depth)]
    /\ UNCHANGED <<r3vars, groundvars, reasonvars, app, system>>

\* the emergence of the result _perform_reasoning builds for reason_about,
\* or what the call raises
ProbeReasonAboutEmergence ==
    /\ probe.kind = "ReasoningEngine.reason_about"
    /\ "emergence" \notin DOMAIN probe
    /\ "raised" \notin DOMAIN probe
    /\ LET result == PerformReasoning(probe.query, <<>>, probe.depth, clock)
       IN  probe' =
               IF IsRaised(result)
               THEN [kind |-> probe.kind, query |-> probe.query,
                     depth |-> probe.depth, raised |-> result.raised]
               ELSE [kind |-> probe.kind, query |-> probe.query,
                     depth |-> probe.depth,
                     unrefined |-> (result.refined = <<>>),
                     novel |-> IF result.refined = <<>> THEN 0
                               ELSE Len(result.refined[1].novel_insights),
                     emergence |-> result.emergence]
    /\ UNCHANGED <<r3vars, groundvars, reasonvars, app, system>>

EmergenceInit == probe \in EmergenceArguments

EmergenceNext ==
    \/ ProbeCalculateEmergence
    \/ ProbeRecCalculateEmergence
    \/ ProbeReasonAboutEmergence

-----------------------------------------------------------------------------
(* ActualAbsoluteIntelligence._check_convergence, src/actual_system.py.    *)

\* The values of Lambda_total a history is made of: 10.0, 10.005 and 10.2.
\* The sums below stay inside 32 bits for changes of this size.
LambdaSamples == {InitialLambda, InitialLambda + 50, InitialLambda + 2000}

\* the lists of at most n values
RECURSIVE Histories(_)
Histories(n) ==
    IF n = 0 THEN {<<>>}
    ELSE Histories(n - 1)
         \cup {Append(h, v) : h \in {g \in Histories(n - 1) : Len(g) = n - 1},
                              v \in LambdaSamples}

Abs(x) == IF x >= 0 THEN x ELSE 0 - x

\* np.diff(recent)
Diff(recent) == [i \in 1..(Len(recent) - 1) |-> recent[i + 1] - recent[i]]

\* np.std(changes) < 0.02, as  n * sum(c^2) - sum(c)^2 < 0.02^2 * n^2
StdBelow(changes) ==
    LET n == Len(changes)
        squares == [i \in 1..n |-> changes[i] * changes[i]]
    IN  n * SumSeq(squares) - SumSeq(changes) * SumSeq(changes)
            < 200 * 200 * n * n

\* the confidence without the min(1.0, ...)
MutConfidence(changes) ==
    LET n == Len(changes)
        abs_changes == [i \in 1..n |-> Abs(changes[i])]
    IN  Unit - (SumSeq(abs_changes) * 10) \div n

\* 1.0 - min(1.0, avg_change * 10)              (src/actual_system.py:151)
Confidence(changes) ==
    LET n == Len(changes)
        abs_changes == [i \in 1..n |-> Abs(changes[i])]
    IN  Unit - Min(Unit, (SumSeq(abs_changes) * 10) \div n)

\* (mutant) a history of fewer than 3 samples counts as converged
MutCheckConvergence(lambda_history) ==
    IF Len(lambda_history) < 3
    THEN [converged |-> TRUE, confidence |-> 0]
    ELSE LET recent == LastN(lambda_history, 5)
             changes == Diff(recent)
             n == Len(changes)
             abs_changes == [i \in 1..n |-> Abs(changes[i])]
             std_small == IF n > 1 THEN StdBelow(changes) ELSE TRUE
         IN  [converged |-> (SumSeq(abs_changes) < 100 * n /\ std_small),
              confidence |-> Confidence(changes),
              avg_change |-> SumSeq(abs_changes) \div n,
              trend |-> SumSeq(changes) \div n]

\* _check_convergence (src/actual_system.py:136-154); avg_change and trend
\* are rounded down to a ten-thousandth
CheckConvergence(lambda_history) ==
    IF Len(lambda_history) < 3
    THEN [converged |-> FALSE, confidence |-> 0]
    ELSE LET recent == LastN(lambda_history, 5)
             changes == Diff(recent)
             n == Len(changes)
             abs_changes == [i \in 1..n |-> Abs(changes[i])]
             std_small == IF n > 1 THEN StdBelow(changes) ELSE TRUE
         IN  [converged |-> (SumSeq(abs_changes) < 100 * n /\ std_small),
              confidence |-> Confidence(changes),
              avg_change |-> SumSeq(abs_changes) \div n,
              trend |-> SumSeq(changes) \div n]

\* a call of _check_convergence with self.metrics["lambda_history"] = h
CallCheckConvergence ==
    /\ probe.kind = "_check_convergence"
    /\ "result" \notin DOMAIN probe
    /\ probe' = [kind |-> probe.kind,
                 lambda_history |-> probe.lambda_history,
                 result |-> CheckConvergence(probe.lambda_history)]
    /\ UNCHANGED <<r3vars, groundvars, reasonvars, app, system>>

ConvergenceInit ==
    probe \in {[kind |-> "_check_convergence", lambda_history |-> h] :
                  h \in Histories(MaxHistory)}

ConvergenceNext == CallCheckConvergence

-----------------------------------------------------------------------------
(* Component extraction and base reasoning of both engines on queries of   *)
(* their own.                                                              *)

\* the words the queries are made of: a proper noun, a pronoun, a relation
\* word in lower case and one capitalized, a quantifier, a logical operator
QueryWords == {"John", "he", "is", "Will", "all", "AND"}

\* the queries of at most n words
RECURSIVE QueriesUpTo(_)
QueriesUpTo(n) ==
    IF n = 0 THEN {<<>>}
    ELSE QueriesUpTo(n - 1)
         \cup {Append(q, w) : q \in {g \in QueriesUpTo(n - 1) : Len(g) = n - 1},
                              w \in QueryWords}

\* self.max_depth of the RecursiveReasoningEngine (src/reasoning_engine.py:9)
RecMaxDepth == 10

\* reason_about attaches base_result["refined"] (src/reasoning_engine.py:72-74)
RecRefinedAttached(base_result, depth) ==
    depth < RecMaxDepth /\ base_result.needs_refinement

BaseArguments ==
    {[kind |-> "ReasoningEngine", query |-> q, depth |-> d] :
        q \in QueriesUpTo(MaxQueryLen), d \in ReasonDepths}
    \cup {[kind |-> "RecursiveReasoningEngine", query |-> q, depth |-> d] :
        q \in QueriesUpTo(MaxQueryLen), d \in RecDepths}

\* ReasoningEngine on one query: _extract_components(query) and
\* _base_reasoning(components) called on their own, then
\* _perform_reasoning(query, {}, depth), which tells whether a refinement
\* was attached, or raises
ProbeBaseReasoning ==
    /\ probe.kind = "ReasoningEngine"
    /\ "entities" \notin DOMAIN probe
    /\ LET components == ExtractComponents(probe.query)
           base_result == BaseReasoning(components)
           result == PerformReasoning(probe.query, <<>>, probe.depth, clock)
           found ==
               [kind |-> probe.kind, query |-> probe.query,
                depth |-> probe.depth,
                entities |-> components.entities,
                relations |-> components.relations,
                unknowns |-> Len(base_result.unknowns),
                contradictions |-> Len(base_result.contradictions),
                patterns |-> Len(base_result.patterns_found),
                needs_refinement |-> base_result.needs_refinement,
                budget |-> (probe.depth > 1)]
       IN  probe' = IF IsRaised(result)
                    THEN [raised |-> result.raised] @@ found
                    ELSE [refined |-> (result.refined # <<>>)] @@ found
    /\ UNCHANGED <<r3vars, groundvars, reasonvars, app, system>>

\* RecursiveReasoningEngine().reason_about(query, depth=depth), up to the
\* attachment of the refinement; valid is what _validate_relation answers.
\* The engine has no pattern matcher: its base result holds no patterns.
\* Building the engine raises SyntaxError; were it built, _parse_query
\* would raise AttributeError at its first undefined helper.
ProbeRecBaseReasoning ==
    /\ probe.kind = "RecursiveReasoningEngine"
    /\ "entities" \notin DOMAIN probe
    /\ "raised" \notin DOMAIN probe
    /\ \E valid \in [1..Len(RecExtractRelations(probe.query)) -> BOOLEAN] :
         IF ~RecModuleCompiles
         THEN probe' = [kind |-> probe.kind, query |-> probe.query,
                        depth |-> probe.depth,
                        raised |-> InitLogicalOperators.raised]
         ELSE IF ~RecHelpersDefined
         THEN probe' = [kind |-> probe.kind, query |-> probe.query,
                        depth |-> probe.depth, raised |-> "AttributeError"]
         ELSE LET base_result == RecBaseReasoning(probe.query, valid)
                  rs == RecExtractRelations(probe.query)
              IN  probe' =
                    [kind |-> probe.kind, query |-> probe.query,
                     depth |-> probe.depth,
                     entities |-> RecExtractEntities(probe.query),
                     relations |-> [i \in 1..Len(rs) |-> rs[i].relation],
                     unknowns |-> Len(base_result.unknowns),
                     contradictions |-> Len(base_result.contradictions),
                     patterns |-> 0,
                     needs_refinement |-> base_result.needs_refinement,
                     refined |-> RecRefinedAttached(base_result, probe.depth),
                     budget |-> (probe.depth < RecMaxDepth)]
    /\ UNCHANGED <<r3vars, groundvars, reasonvars, app, system>>

BaseInit == probe \in BaseArguments

BaseNext ==
    \/ ProbeBaseReasoning
    \/ ProbeRecBaseReasoning

-----------------------------------------------------------------------------
(* The service, src/app.py: the handlers that call reflect() on the engine *)
(* all requests share.  Every handler is an `async def` coroutine on the   *)
(* one event loop of the process: the loop runs one coroutine at a time,   *)
(* from one suspension point (an await that yields) to the next.           *)
(* src.r3.R3Engine is imported at src/app.py:26 and is not among the       *)
(* sources: its reflect() is taken from the specification, statement by    *)
(* statement in the order ActualR3Engine.reflect has them.  The handlers   *)
(* call it without await (src/app.py:353, 404, 469).                       *)

\* the aggregate emergence a reflect() call may compute
AppEmergences == {0, 2 * Unit}

\* the Lambda impact of a cycle: 0.1 x the emergence multiplier
\* x (1 + 0.05 x cycles completed so far)
R3EngineImpact(emergence, cycles_completed) ==
    (((LambdaGrowthTarget * EmergenceMultiplier(emergence)) \div Unit)
     * (Unit + cycles_completed * 500)) \div Unit

\* where the handler of a request stands: waiting for the loop, at one of
\* the statements of a reflect() call, at its response, or done
ReflectSteps == {"impact", "load", "store", "cycle"}

\* (mutant) a loop that resumes any coroutine at any statement, as threads
\* would run
MutLoopRuns(t) == TRUE

\* The event loop runs the coroutine of request t; 0 is the loop itself,
\* free to accept a request or to start a handler that is ready.
LoopRuns(t) == app.running = t

\* A request is accepted: its dependencies get_current_user and get_system
\* (src/app.py:201-216) are resolved on the loop and its handler is ready
\* to run.  optimize is QueryRequest.optimize, n_cycles the parameter
\* `cycles` of /api/optimize.
Accept(route, optimize, n_cycles) ==
    /\ LoopRuns(0)
    /\ Len(app.requests) < MaxRequests
    /\ app' = [app EXCEPT !.requests =
                  Append(@, [route |-> route, pc |-> "ready",
                             optimize |-> optimize, cycles |-> n_cycles,
                             done |-> 0, emergence |-> NoValue,
                             impact |-> NoValue, loaded |-> NoValue,
                             error |-> "none"])]
    /\ UNCHANGED <<r3vars, groundvars, reasonvars, probe, system>>

\* the query posted to /api/query, and QueryRequest.depth, left at its
\* default (src/app.py:36-37)
AppQueries == {<<"John", "is", "a", "teacher">>}
AppDepths == {3}

\* the context _process_query_internal hands to reason_about:
\* {"grounded": grounded} (src/app.py:397)
QueryContext == <<[kind |-> "str", key |-> "grounded", value |-> "{...}"]>>

\* process_query (src/app.py:244-304) with _process_query_internal
\* (src/app.py:379-427), which holds no suspension point.  The statement is
\* grounded by the AxiomSystem (line 389), which records the grounding, and
\* reason_about is called (line 395).  reason_about raises NameError, so
\* reflect() (line 404) is not reached and the request is answered with
\* status 500 (src/app.py:299-304).  Had reason_about returned, reflect()
\* would be called when optimize is set and building the response would
\* read grounded.certainty (src/app.py:414) of the dict ground_statement
\* returns (src/src/axioms.py:63-70): AttributeError, status 500 again.  The
\* add_task calls of lines 275-288 are not reached either way, so no
\* _store_result or _run_optimization task (src/app.py:467-469) is ever
\* queued.  g1 and g2 are the times before the two clock readings of
\* ground_statement (src/src/axioms.py:187, 67); what reason_about reads
\* of the clock before it raises (src/src/reasoning.py:37) is kept nowhere.
ProcessQuery(t, query, depth, g1, g2) ==
    /\ LoopRuns(0)
    /\ t \in 1..Len(app.requests)
    /\ app.requests[t].route = "/api/query"
    /\ app.requests[t].pc = "ready"
    /\ GroundSystemCall(query, g1, g2)
    /\ ReasonAboutCall(query, QueryContext, depth, clock', 0, 0)
    /\ app' = IF IsRaised(reason_last'.result)
              THEN [app EXCEPT !.requests[t].pc = "status 500",
                               !.requests[t].error =
                                   reason_last'.result.raised]
              ELSE IF app.requests[t].optimize
              THEN [app EXCEPT !.running = t,
                               !.requests[t].pc = "impact",
                               !.requests[t].cycles = 1]
              ELSE [app EXCEPT !.requests[t].pc = "status 500",
                               !.requests[t].error = "AttributeError"]
    /\ UNCHANGED <<r3vars, probe, system>>

\* run_optimization (src/app.py:342-363) is started: the loop enters the
\* handler, whose body is `cycles` reflect() calls in a for loop with no
\* await (lines 352-354), then the response.
RunOptimization(t) ==
    /\ LoopRuns(0)
    /\ t \in 1..Len(app.requests)
    /\ app.requests[t].route = "/api/optimize"
    /\ app.requests[t].pc = "ready"
    /\ app' = [app EXCEPT !.running = t, !.requests[t].pc = "impact"]
    /\ UNCHANGED <<r3vars, groundvars, reasonvars, probe, system>>

\* reflect(), first statements: the levels are run and the emergence and
\* the Lambda impact of the cycle computed from the cycles recorded so far
R3EngineReflectImpact(t, emergence) ==
    /\ LoopRuns(t)
    /\ t \in 1..Len(app.requests)
    /\ app.requests[t].pc = "impact"
    /\ app' = [app EXCEPT
                  !.requests[t].pc = "load",
                  !.requests[t].emergence = emergence,
                  !.requests[t].impact =
                      R3EngineImpact(emergence, Len(app.r3.cycles))]
    /\ UNCHANGED <<r3vars, groundvars, reasonvars, probe, system>>

\* reflect(), `lambda_total += impact`: the attribute is read
R3EngineReflectLoad(t) ==
    /\ LoopRuns(t)
    /\ t \in 1..Len(app.requests)
    /\ app.requests[t].pc = "load"
    /\ app' = [app EXCEPT !.requests[t].pc = "store",
                          !.requests[t].loaded = app.r3.lambda_total]
    /\ UNCHANGED <<r3vars, groundvars, reasonvars, probe, system>>

\* reflect(), `lambda_total += impact`: the sum is written back, and the
\* emergence sample is appended
R3EngineReflectStore(t) ==
    /\ LoopRuns(t)
    /\ t \in 1..Len(app.requests)
    /\ app.requests[t].pc = "store"
    /\ app' = [app EXCEPT
                  !.requests[t].pc = "cycle",
                  !.r3.lambda_total =
                      app.requests[t].loaded + app.requests[t].impact,
                  !.r3.emergence_history =
                      Append(@, app.requests[t].emergence)]
    /\ UNCHANGED <<r3vars, groundvars, reasonvars, probe, system>>

\* reflect(), last statements: the finished cycle is appended to the cycle
\* history and the call returns, into the next pass of the handler's loop
\* or to its response
R3EngineReflectCycle(t) ==
    /\ LoopRuns(t)
    /\ t \in 1..Len(app.requests)
    /\ app.requests[t].pc = "cycle"
    /\ app' = [app EXCEPT
                  !.requests[t].pc =
                      IF app.requests[t].done + 1 < app.requests[t].cycles
                      THEN "impact" ELSE "respond",
                  !.requests[t].done = @ + 1,
                  !.r3.cycles =
                      Append(@, [request |-> t,
                                 emergence |-> app.requests[t].emergence,
                                 lambda_impact |-> app.requests[t].impact])]
    /\ UNCHANGED <<r3vars, groundvars, reasonvars, probe, system>>

\* The handler ends and the loop is free again: run_optimization returns
\* its response (src/app.py:356-363); _process_query_internal goes on to
\* build its response and raises at src/app.py:414, status 500.
Respond(t) ==
    /\ LoopRuns(t)
    /\ t \in 1..Len(app.requests)
    /\ app.requests[t].pc = "respond"
    /\ app' = IF app.requests[t].route = "/api/optimize"
              THEN [app EXCEPT !.running = 0,
                               !.requests[t].pc = "responded"]
              ELSE [app EXCEPT !.running = 0,
                               !.requests[t].pc = "status 500",
                               !.requests[t].error = "AttributeError"]
    /\ UNCHANGED <<r3vars, groundvars, reasonvars, probe, system>>

\* lifespan (src/app.py:91-95): the engine is built once, before any request
AppInit ==
    app = [r3 |-> [lambda_total |-> InitialLambda, cycles |-> <<>>,
                   emergence_history |-> <<>>],
           requests |-> <<>>,
           running |-> 0]

AppNext ==
    \/ \E optimize \in BOOLEAN : Accept("/api/query", optimize, 0)
    \/ \E n_cycles \in 1..2 : Accept("/api/optimize", FALSE, n_cycles)
    \/ \E t \in 1..MaxRequests, query \in AppQueries, depth \in AppDepths,
          g1 \in 0..1, g2 \in 0..1 :
           ProcessQuery(t, query, depth, g1, g2)
    \/ \E t \in 1..MaxRequests : RunOptimization(t)
    \/ \E t \in 1..MaxRequests, emergence \in AppEmergences :
           R3EngineReflectImpact(t, emergence)
    \/ \E t \in 1..MaxRequests : R3EngineReflectLoad(t)
    \/ \E t \in 1..MaxRequests : R3EngineReflectStore(t)
    \/ \E t \in 1..MaxRequests : R3EngineReflectCycle(t)
    \/ \E t \in 1..MaxRequests : Respond(t)

-----------------------------------------------------------------------------
(* ActualAbsoluteIntelligence (src/actual_system.py): process() grounds    *)
(* the query, reasons about it, reflects on it, stores the reasoning path  *)
(* and updates the metrics.                                                *)

\* The queries process() is called with.
SystemQueries ==
    {<<"create", "new", "plan">>, <<"John", "is", "a", "teacher">>, <<"why?">>}

\* w.endswith('?')
EndsQuestion(w) == w \in {"why?"}

\* _calculate_optimal_depth (src/actual_system.py:88-97)
CalculateOptimalDepth(query) ==
    LET n == Len(query)
        questions == Cardinality({i \in 1..n : EndsQuestion(query[i])})
        base_depth == 2
        complexity_bonus == Min(5, (3 * n) \div 10)
        uncertainty_bonus == Min(3, (5 * questions) \div Max(1, n))
    IN  Min(10, base_depth + complexity_bonus + uncertainty_bonus)

\* the dict reason_about is written to return (src/reasoning_engine.py:76-86):
\* the keys process() reads or hands on.  The base result, contradictions
\* included, sits under "result".
RecReasonAboutDict(query, valid, depth) ==
    LET base_result == RecBaseReasoning(query, valid)
    IN  [query |-> query,
         result |-> base_result,
         depth |-> depth,
         certainty |-> RecCalculateCertainty(base_result, depth)]

\* RecursiveReasoningEngine().reason_about (src/reasoning_engine.py:60-86).  No
\* engine can be built; on a built engine the depth test comes first and
\* _parse_query (line 66) then raises AttributeError at its first undefined
\* helper.
RecReasonAbout(query, valid, depth) ==
    IF ~RecModuleCompiles THEN InitLogicalOperators
    ELSE IF depth >= RecMaxDepth
    THEN [result |-> [sentinel |-> "max_depth_reached"], depth |-> depth]
    ELSE IF ~RecHelpersDefined THEN Raised("AttributeError")
    ELSE RecReasonAboutDict(query, valid, depth)

\* str({"reasoning": reasoning_result}), the context reflect() is handed: the
\* text holds the query, so it holds "new"/"create" when the query does.
ProcessContext(query) ==
    IF TextNovel(query) THEN "{'reasoning': {'query': 'create new plan'}}"
    ELSE "{'reasoning': {'query': ...}}"

\* any(harm in query.lower() for harm in [...])      (src/actual_system.py:129);
\* no word of the vocabulary holds one of them inside a longer word
HarmWords == {"harm", "hurt", "kill", "steal"}
HasHarm(query) == \E i \in 1..Len(query) : Lower(query[i]) \in HarmWords

\* _check_safety (src/actual_system.py:115-134).  reasoning is the dict
\* reason_about returned; check 2 reads its top-level key "contradictions".
CheckSafety(query, grounded, reasoning, n_paths) ==
    <<VerifyProof(grounded.proof_steps),
      IF "contradictions" \in DOMAIN reasoning
      THEN Len(reasoning.contradictions) = 0
      ELSE TRUE,
      ~HasHarm(query),
      n_paths < 1000>>

\* self._hash_path, read at src/actual_system.py:111, is no method of the
\* class nor an attribute __init__ sets: reading it raises AttributeError.
HashPathDefined == FALSE

\* _create_complete_path (src/actual_system.py:99-113), called before
\* _update_metrics: the convergence record is computed from the Lambda
\* history as the previous process() call left it.  The entries of the dict
\* are evaluated in the order written, "hash" last: the safety checks and
\* the convergence record are computed, then line 111 raises and no path
\* is returned.
CreateCompletePath(query, grounded, reasoning, emergence, lambda_impact) ==
    IF HashPathDefined
    THEN [query |-> query,
          ontological_grounding |-> grounded.certainty,
          emergence |-> emergence,
          lambda_impact |-> lambda_impact,
          reasoning_depth |-> reasoning.depth,
          safety_passes |-> CheckSafety(query, grounded, reasoning,
                                        Len(system.reasoning_paths)),
          convergence |-> CheckConvergence(system.lambda_history)]
    ELSE Raised("AttributeError")

\* (mutant) the attempt is counted although process() was never entered
MutProcessedAfterImportError(n) == n + 1

\* self.queries_processed after a run that ended at the import of
\* src/actual_system.py:7: no system exists and nothing was counted
ProcessedAfterImportError(n) == n

\* process (src/actual_system.py:43-86).  sympy is what sympy answers inside
\* ground_statement; answers is what _validate_relation answers for the
\* relations of the query, valid for those of the reflexive level's
\* meta-query; oracle is what _analyze_thinking_patterns returns.
\* src/actual_system.py:7 imports RecursiveReasoningEngine and __init__ builds
\* one (line 17), so with the file of src/ no system comes into being and a
\* run that calls process() ends with SyntaxError before the first
\* statement of process() is reached.  On a system that was built, the call
\* is counted first (line 46) and the query grounded, reason_about raises
\* or returns, reflect() follows only when it returned, and the path is
\* built and stored (lines 61-70) only when reflect() returned: nothing
\* undoes the count when a later statement raises.  system.attempted lists
\* the queries process() was to be called with.
Process(query, sympy, answers, valid, oracle) ==
    /\ Len(system.attempted) < MaxQueries
    /\ IF ~RecModuleCompiles
       THEN /\ system' = [system EXCEPT
                             !.attempted = Append(@, query),
                             !.queries_processed =
                                 ProcessedAfterImportError(@),
                             !.last = [outcome |-> InitLogicalOperators.raised,
                                       query |-> query]]
            /\ UNCHANGED <<r3vars, groundvars>>
       ELSE LET grounded == ActGroundStatement(query, sympy).value
                reasoning ==
                    RecReasonAbout(query, answers, CalculateOptimalDepth(query))
                contradictions ==
                    IF "contradictions" \in DOMAIN reasoning.result
                    THEN Len(reasoning.result.contradictions) ELSE 0
                path == CreateCompletePath(query, grounded, reasoning,
                                           r3_last'.emergence,
                                           r3_last'.lambda_impact)
            IN  /\ GroundActualCall(query, sympy)
                /\ IF IsRaised(reasoning)
                   THEN /\ system' =
                              [system EXCEPT
                                  !.attempted = Append(@, query),
                                  !.queries_processed = @ + 1,
                                  !.last = [outcome |-> reasoning.raised,
                                            query |-> query]]
                        /\ UNCHANGED r3vars
                   ELSE /\ ReflectCall(query, ProcessContext(query), valid,
                                       oracle)
                        /\ IF r3_last'.outcome = "returned" /\ ~IsRaised(path)
                           THEN system' =
                                  [attempted |-> Append(system.attempted, query),
                                   queries_processed |->
                                       system.queries_processed + 1,
                                   reasoning_paths |->
                                       Append(system.reasoning_paths, path),
                                   lambda_history |->
                                       Append(system.lambda_history,
                                              lambda_total'),
                                   last |-> [outcome |-> "returned",
                                             query |-> query,
                                             depth |-> reasoning.depth,
                                             contradictions |-> contradictions,
                                             lambda_after |-> lambda_total']]
                           ELSE system' =
                                  [system EXCEPT
                                      !.attempted = Append(@, query),
                                      !.queries_processed = @ + 1,
                                      !.last = [outcome |->
                                                    IF r3_last'.outcome
                                                           = "returned"
                                                    THEN path.raised
                                                    ELSE r3_last'.outcome,
                                                query |-> query]]
    /\ UNCHANGED <<reasonvars, probe, app>>

\* __init__ (src/actual_system.py:13-35)
SystemInit ==
    system = [attempted |-> <<>>,
              queries_processed |-> 0,
              reasoning_paths |-> <<>>,
              lambda_history |-> <<InitialLambda>>,
              last |-> [outcome |-> "none"]]

SystemNext ==
    \E query \in SystemQueries, sympy \in SympyOutcomes,
       oracle \in TranscendentPatterns :
        \E answers \in [1..Len(RecExtractRelations(query)) -> BOOLEAN],
           valid \in [1..Len(RecExtractRelations(MetaQuery(query))) -> BOOLEAN] :
            Process(query, sympy, answers, valid, oracle)

\* ---- _check_safety applied on its own

\* The components _create_complete_path is written to hand to
\* _check_safety: the query, what ground_statement returns for it and the
\* dict reason_about is written to return for it at the depth process()
\* chooses.
SafetyArguments ==
    {[kind |-> "_check_safety", query |-> q] : q \in QueriesUpTo(MaxQueryLen)}

CallCheckSafety ==
    /\ probe.kind = "_check_safety"
    /\ "safety_passes" \notin DOMAIN probe
    /\ \E answers \in [1..Len(RecExtractRelations(probe.query)) -> BOOLEAN],
          sympy \in SympyOutcomes :
         LET grounded == ActGroundStatement(probe.query, sympy).value
             reasoning ==
                 RecReasonAboutDict(probe.query, answers,
                                    CalculateOptimalDepth(probe.query))
         IN  probe' = [kind |-> probe.kind, query |-> probe.query,
                       contradictions |-> Len(reasoning.result.contradictions),
                       safety_passes |->
                           CheckSafety(probe.query, grounded, reasoning,
                                       Len(system.reasoning_paths))]
    /\ UNCHANGED <<r3vars, groundvars, reasonvars, app, system>>

SafetyInit == probe \in SafetyArguments

SafetyNext == CallCheckSafety

-----------------------------------------------------------------------------
(* Specifications.                                                         *)

NoProbe == probe = [kind |-> "none"]

Init == R3Init /\ GroundInit /\ ReasonInit /\ NoProbe /\ AppInit /\ SystemInit

InitCertainty == R3Init /\ GroundInit /\ ReasonInit /\ ProbeInit /\ AppInit /\ SystemInit

InitProof == R3Init /\ ProofInit /\ ReasonInit /\ NoProbe /\ AppInit /\ SystemInit

InitR3 ==
    R3BuildsInit /\ GroundInit /\ ReasonInit /\ NoProbe /\ AppInit /\ SystemInit

SpecR3 == InitR3 /\ [][R3Next]_vars

InitR3Shipped ==
    /\ R3Init /\ GroundInit /\ ReasonInit /\ AppInit /\ SystemInit
    /\ probe \in ShippedArguments

SpecR3Shipped == InitR3Shipped /\ [][ShippedNext]_vars

InitLevels ==
    /\ TranscendentInit /\ GroundInit /\ ReasonInit /\ AppInit /\ SystemInit
    /\ probe \in LevelArguments

SpecLevels == InitLevels /\ [][LevelsNext]_vars

InitTranscendent ==
    /\ TranscendentInit /\ GroundInit /\ ReasonInit /\ AppInit /\ SystemInit
    /\ probe \in {[kind |-> "none"], [kind |-> "_transcendent_level"]}

SpecTranscendent == InitTranscendent /\ [][TranscendentNext]_vars

SpecGround == Init /\ [][GroundNext]_vars

SpecProof == InitProof /\ [][ProofNext]_vars

SpecReason == Init /\ [][ReasonNext]_vars

SpecCertainty == InitCertainty /\ [][ProbeNext]_vars

InitEmergence == R3Init /\ GroundInit /\ ReasonInit /\ EmergenceInit /\ AppInit /\ SystemInit

SpecEmergence == InitEmergence /\ [][EmergenceNext]_vars

InitConvergence == R3Init /\ GroundInit /\ ReasonInit /\ ConvergenceInit /\ AppInit /\ SystemInit

SpecConvergence == InitConvergence /\ [][ConvergenceNext]_vars

InitBase == R3Init /\ GroundInit /\ ReasonInit /\ BaseInit /\ AppInit /\ SystemInit

SpecBase == InitBase /\ [][BaseNext]_vars

SpecApp == Init /\ [][AppNext]_vars

SpecSystem == Init /\ [][SystemNext]_vars

InitSafety ==
    R3Init /\ GroundInit /\ ReasonInit /\ SafetyInit /\ AppInit /\ SystemInit

SpecSafety == InitSafety /\ [][SafetyNext]_vars

-----------------------------------------------------------------------------
(* Claims about the reflection engine (SpecR3).                            *)

\* C1: over any sequence of reflect() calls on a fresh engine, Lambda_total
\* never decreases: every step leaves it equal or larger.
C1_LambdaNonDecreasing == [][lambda_total' >= lambda_total]_vars

\* witness of C1: two reflect() calls have been made and Lambda_total has
\* grown beyond its initial 10.0.
C1_Witness == r3_calls >= 2 /\ lambda_total > InitialLambda

\* the impact the spec's formula gives the i-th call (0-based):
\* 0.1 * multiplier(emergence_i) * (1 + 0.05 * i)
ClaimedImpact(emergence, i) ==
    (((LambdaGrowthTarget * EmergenceMultiplier(emergence)) \div Unit)
        * (Unit + 500 * i)) \div Unit

RECURSIVE ClaimedLambda(_, _)
ClaimedLambda(history, n) ==
    IF n = 0 THEN InitialLambda
    ELSE ClaimedLambda(history, n - 1) + ClaimedImpact(history[n], n - 1)

\* the emergences the claimed sum can be taken over for a call that
\* recorded none: one value for each multiplier (0.8, 1.2, 1.5)
ClaimedEmergences == {0, Unit, 2 * Unit}

\* the emergences of the first n calls: those the calls recorded, and any
\* of the values above for the calls that recorded none
EmergencesOfCalls(n) ==
    {e \in [1..n -> ClaimedEmergences
                        \cup {emergence_history[i] :
                                 i \in 1..Len(emergence_history)}] :
        \A i \in 1..n :
            i <= Len(emergence_history) => e[i] = emergence_history[i]}

\* C2 (as stated): after n sequential reflect() calls Lambda_total is
\* 10.0 + sum over i < n of 0.1 * multiplier(emergence_i) * (1 + 0.05 * i),
\* emergence_i being the emergence of the i-th call.
C2_LambdaFormula ==
    \E e \in EmergencesOfCalls(r3_calls) :
        lambda_total = ClaimedLambda(e, r3_calls)

\* C3 (as stated): every reflect() call appends exactly one cycle, so after
\* n calls the history holds n cycles.
C3_OneCyclePerCall == Len(cycles) = r3_calls

\* C4 (as stated): every reflect() call runs the four levels Reflexive,
\* Recursive, Regenerative, Transcendent, once each and in that order, each
\* level handed the output of the one before it: the levels a call ran to
\* their end are these four.
C4_FourLevelsInOrder ==
    r3_calls > 0 =>
        /\ [k \in 1..Len(r3_last.ran) |-> r3_last.ran[k].level]
              = <<"reflexive", "recursive", "regenerative", "transcendent">>
        /\ [k \in 1..Len(r3_last.ran) |-> r3_last.ran[k].input]
              = <<"query", "reflexive", "recursive", "regenerative">>

-----------------------------------------------------------------------------
(* Claims about grounding (SpecGround, SpecProof), the certainties         *)
(* (SpecCertainty) and the reasoning cache (SpecReason).                   *)

\* C5: AxiomaticGrounding.ground_statement returns for every statement; when
\* the generated proof fails verify_proof the value is the minimal fallback
\* (one step, A1 / existential, certainty 0.1), and when it passes the value
\* carries the generated proof.
C5_GroundFallsBack ==
    ground_last.op = "AxiomaticGrounding.ground_statement" =>
        /\ ground_last.outcome = "returned"
        /\ IF \A i \in 1..Len(ground_last.generated) :
                  ground_last.generated[i].transformation
                      \in AxiomRules(ground_last.generated[i].axiom)
           THEN ground_last.value.proof_steps = ground_last.generated
           ELSE /\ Len(ground_last.value.proof_steps) = 1
                /\ ground_last.value.proof_steps[1].axiom = "A1"
                /\ ground_last.value.proof_steps[1].transformation = "existential"
                /\ ground_last.value.certainty = 1000

\* a grounding whose generated five-step proof failed verification and that
\* returned the fallback
C5_Witness ==
    /\ ground_last.op = "AxiomaticGrounding.ground_statement"
    /\ Len(ground_last.generated) = 5
    /\ ~VerifyProof(ground_last.generated)
    /\ ground_last.value = MinimalGrounding(ground_last.statement)

\* C6: two groundings of the same statement, at any two points in time, have
\* the same proof-step content and the same hash.
C6_GroundingDeterministic ==
    \A i, j \in 1..Len(grounding_history) :
        grounding_history[i].statement = grounding_history[j].statement =>
            /\ grounding_history[i].proof_steps = grounding_history[j].proof_steps
            /\ grounding_history[i].hash = grounding_history[j].hash

\* C8: the proof returned by a grounding holds a step A2 / identity with
\* certainty 1.0.
C8_IdentityStepAlways ==
    ground_last.op \in {"AxiomaticGrounding.ground_statement",
                        "AxiomSystem.ground_statement"} =>
        \E i \in 1..Len(ground_last.value.proof_steps) :
            /\ ground_last.value.proof_steps[i].axiom = "A2"
            /\ ground_last.value.proof_steps[i].transformation = "identity"
            /\ ground_last.value.proof_steps[i].certainty = Unit

HasStep(proof_steps, axiom, transformation) ==
    \E i \in 1..Len(proof_steps) :
        /\ proof_steps[i].axiom = axiom
        /\ proof_steps[i].transformation = transformation

\* the vocabulary table the claim speaks of, as pairs (axiom,
\* transformation): A2 allows identity, reflexive, symmetric and transitive,
\* A3 negation and contradiction_elimination, and so on for A4, A5 and A6
ClaimedVocabulary ==
    {<<"A2", "identity">>, <<"A2", "reflexive">>, <<"A2", "symmetric">>,
     <<"A2", "transitive">>,
     <<"A3", "negation">>, <<"A3", "contradiction_elimination">>,
     <<"A4", "disjunction">>, <<"A4", "choice">>, <<"A4", "partition">>,
     <<"A5", "conservation">>, <<"A5", "invariance">>, <<"A5", "symmetry">>,
     <<"A6", "composition">>, <<"A6", "hierarchy">>,
     <<"A6", "emergence_detection">>}

\* every step of the proof has its transformation in its axiom's vocabulary
InVocabulary(proof_steps) ==
    \A i \in 1..Len(proof_steps) :
        <<proof_steps[i].axiom, proof_steps[i].transformation>>
            \in ClaimedVocabulary

\* the value is the minimal fallback: one step, A1 / existential
IsFallback(value) ==
    /\ Len(value.proof_steps) = 1
    /\ value.proof_steps[1].axiom = "A1"
    /\ value.proof_steps[1].transformation = "existential"

\* C9 (as stated): verify_proof(), of a LogicalStatement and of the
\* AxiomSystem, is true exactly when every step of the proof it is asked
\* about has its transformation in the vocabulary of the step's axiom; a
\* proof with a step A3 / identity fails it, and a grounding that generated
\* such a proof returns the minimal fallback.
C9_VerifyProofVocabulary ==
    /\ ground_last.op = "LogicalStatement.verify_proof" =>
          /\ ground_last.ok <=> InVocabulary(ground_last.proof_steps)
          /\ HasStep(ground_last.proof_steps, "A3", "identity") => ~ground_last.ok
    /\ ground_last.op = "AxiomSystem.verify_proof" =>
          /\ ground_last.ok <=> InVocabulary(ground_last.hash.steps)
          /\ HasStep(ground_last.hash.steps, "A3", "identity") => ~ground_last.ok
    /\ ( /\ ground_last.op \in {"AxiomaticGrounding.ground_statement",
                                 "AxiomSystem.ground_statement"}
         /\ HasStep(ground_last.generated, "A3", "identity") ) =>
          IsFallback(ground_last.value)

C10_Memoized ==
    (reason_last.op = "reason_about" /\ reason_last.repeated) =>
        /\ ~IsRaised(reason_last.result)
        /\ reason_last.hit
        /\ reason_last.result = reason_last.first_result
        /\ performance_stats.cache_hits
               = reason_last.stats_before.cache_hits + 1
        /\ performance_stats.queries_processed
               = reason_last.stats_before.queries_processed
        /\ reasoning_cache = reason_last.cache_before

\* C11 (as stated): cache keys are injective on (query, context, depth):
\* every triple passed to reason_about gets a cache key, two triples that
\* differ in a component get different keys, and a call served from the
\* cache was passed a triple that was passed before.
C11_CacheKeyInjective ==
    /\ \A t1 \in DOMAIN reason_seen :
           ~IsRaised(GenerateCacheKey(t1[1], t1[2], t1[3]))
    /\ \A t1 \in DOMAIN reason_seen, t2 \in DOMAIN reason_seen :
           t1 # t2 => GenerateCacheKey(t1[1], t1[2], t1[3])
                          # GenerateCacheKey(t2[1], t2[2], t2[3])
    /\ (reason_last.op = "reason_about" /\ reason_last.hit)
           => reason_last.repeated

-----------------------------------------------------------------------------
(* Claims about the reasoning engines' numbers.                            *)

\* C12: the emergence of a reasoning result lies in [0, 5.0], and it is 0
\* when no refinement was performed or the refinement holds no novel insight.
C12_EmergenceRange ==
    "emergence" \in DOMAIN probe =>
        /\ probe.emergence >= 0 /\ probe.emergence <= 5 * Unit
        /\ (probe.unrefined \/ probe.novel = 0) => probe.emergence = 0

\* an emergence that is 5.0 only because the formula's value is capped
C12_Witness ==
    /\ probe.kind = "ReasoningEngine._calculate_emergence"
    /\ "emergence" \in DOMAIN probe
    /\ ~probe.unrefined /\ probe.novel > 0
    /\ probe.emergence = 5 * Unit
    /\ MutCalculateEmergence(CountedBaseResult(0, 0, probe.patterns),
                             EmergenceRefined(probe.insights, probe.dup),
                             probe.depth) > 5 * Unit

\* the certainty the formula gives for the four counts: 0.7, less 0.1 per
\* unknown and 0.2 per contradiction, plus min(0.3, 0.05 per refinement) and
\* 0.05 per pattern, clamped to [0.1, 1.0]
ClaimedCertainty(unknowns, contradictions, refinements, patterns) ==
    Max(1000, Min(Unit, 7000 - 1000 * unknowns - 2000 * contradictions
                        + Min(3000, 500 * refinements) + 500 * patterns))

\* the formula's value is what ReasoningEngine._calculate_certainty returns
ProductionCertaintyAsClaimed ==
    (probe.kind = "ReasoningEngine._calculate_certainty"
     /\ "certainty" \in DOMAIN probe) =>
        probe.certainty
            = ClaimedCertainty(probe.unknowns, probe.contradictions,
                               Max(0, probe.refinements), probe.patterns)

\* C13: the certainty either engine computes for a reasoning result equals
\* the clamped formula of the result's numbers of unknowns, contradictions,
\* refinements and patterns (a result without refinement has 0 refinements;
\* a RecursiveReasoningEngine result holds no patterns).
C13_CertaintyFormula ==
    /\ ProductionCertaintyAsClaimed
    /\ (probe.kind = "RecursiveReasoningEngine._calculate_certainty"
        /\ "certainty" \in DOMAIN probe) =>
           probe.certainty
               = ClaimedCertainty(probe.unknowns, probe.contradictions,
                                  Max(0, probe.refinements), 0)

-----------------------------------------------------------------------------
(* Claims about the convergence check.                                     *)

\* C14: for a Lambda_total history of fewer than 3 samples the convergence
\* check answers converged = false with confidence 0, and for every longer
\* history its confidence lies in [0, 1].
C14_ConvergenceConfidence ==
    (probe.kind = "_check_convergence" /\ "result" \in DOMAIN probe) =>
        /\ Len(probe.lambda_history) < 3 =>
               ~probe.result.converged /\ probe.result.confidence = 0
        /\ probe.result.confidence >= 0 /\ probe.result.confidence <= Unit

\* a history longer than 5 whose recent changes average more than 0.1: the confidence
\* is 0 only because 10 times the average is cut at 1
C14_Witness ==
    /\ probe.kind = "_check_convergence" /\ "result" \in DOMAIN probe
    /\ Len(probe.lambda_history) > 5
    /\ probe.result.confidence = 0
    /\ MutConfidence(Diff(LastN(probe.lambda_history, 5))) < 0

-----------------------------------------------------------------------------
(* Claims about the service.                                               *)

\* the sum of the Lambda impacts the cycles of a history record
SumImpacts(history) ==
    SumSeq([i \in 1..Len(history) |-> history[i].lambda_impact])

\* the handler of request t is inside a reflect() call
Reflecting(t) == app.requests[t].pc \in ReflectSteps

\* the reflect() calls that have returned
CompletedCalls ==
    SumSeq([t \in 1..Len(app.requests) |-> app.requests[t].done])

-----------------------------------------------------------------------------
(* Claims about the improvements of a reflection cycle (SpecR3).           *)

\* C16: a reflect() call whose regenerative level proposed improvements
\* returns normally whether or not a handler fails: its cycle is appended
\* with the proposals, Lambda_total is raised by the cycle's impact, and the
\* improvement log gains one entry per proposal, an error entry for a
\* handler that failed.
C16_HandlerFailureRecorded ==
    (r3_last.outcome # "none" /\ r3_last.proposed # <<>>) =>
        /\ r3_last.outcome = "returned"
        /\ cycles # <<>>
        /\ cycles[Len(cycles)].improvements = r3_last.proposed
        /\ lambda_total = r3_last.old_lambda + r3_last.lambda_impact
        /\ Len(improvement_log)
               = Len(r3_last.log_before) + Len(r3_last.proposed)
        /\ \A i \in 1..Len(r3_last.proposed) :
               /\ improvement_log[Len(r3_last.log_before) + i].improvement
                      = r3_last.proposed[i].type
               /\ improvement_log[Len(r3_last.log_before) + i].outcome
                      \in {"result", "error"}

-----------------------------------------------------------------------------
(* Claims about ReasoningEngine's reasoning (SpecReason).                  *)

\* C17: every reason_about call returns, and a call whose base reasoning
\* needs refinement while its depth leaves no budget for one (depth <= 1)
\* returns the sentinel result 'max_depth_reached'.
C17_DepthSentinel ==
    reason_last.op = "reason_about" =>
        /\ ~IsRaised(reason_last.result)
        /\ (/\ ~reason_last.hit
            /\ reason_last.depth <= 1
            /\ reason_last.result.base_result.needs_refinement) =>
               /\ "result" \in DOMAIN reason_last.result
               /\ reason_last.result.result = "max_depth_reached"

-----------------------------------------------------------------------------
(* Claims about component extraction and base reasoning (SpecBase).        *)

\* an entity as specified: capitalized and longer than 2, or a pronoun
ClaimedEntity(w) ==
    (UpperFirst(w) /\ TokLen(w) > 2)
    \/ w \in {"I", "you", "he", "she", "it", "we", "they"}

\* a relation as specified: the lowercase form is in the vocabulary
ClaimedRelation(w) ==
    Lower(w) \in {"is", "has", "can", "does", "will", "should", "must"}

LowerAll(ws) == [i \in 1..Len(ws) |-> Lower(ws[i])]

\* C18: component extraction makes an entity of every token of the query
\* that is capitalized with length > 2 or is a pronoun, and a relation of
\* every token whose lowercase form is in the relation vocabulary, wherever
\* it stands; the extracted entities and relations are exactly these tokens,
\* in query order.
C18_ExtractionAsSpecified ==
    "entities" \in DOMAIN probe =>
        /\ probe.entities = SelectSeq(probe.query, ClaimedEntity)
        /\ LowerAll(probe.relations)
               = LowerAll(SelectSeq(probe.query, ClaimedRelation))

-----------------------------------------------------------------------------
(* Claims about the generated proofs (SpecGround).                         *)

\* the statement holds a lexical contradiction marker
ClaimedMarker(statement) ==
    \/ \E i \in 1..(Len(statement) - 1) :
          <<Lower(statement[i]), Lower(statement[i + 1])>>
              \in ContradictionPhrases
    \/ \E i \in 1..Len(statement) : Lower(statement[i]) \in ParadoxWords

\* the axioms of the proof as specified, in order
ClaimedAxioms(statement) ==
    IF ClaimedMarker(statement)
    THEN <<"A1", "A2", "A3", "A4", "A5", "A6">>
    ELSE <<"A1", "A2", "A4", "A5", "A6">>

\* C19: the proof a grounding generates for a statement has its steps in
\* the order A1, A2, [A3], A4, A5, A6: A1, A2, A4, A5 and A6 for every
\* statement, and the A3 / contradiction_elimination step exactly when the
\* statement holds a lexical contradiction marker.
C19_ProofStepOrder ==
    ground_last.op \in {"AxiomaticGrounding.ground_statement",
                        "AxiomSystem.ground_statement"} =>
        /\ [i \in 1..Len(ground_last.generated) |->
               ground_last.generated[i].axiom]
               = ClaimedAxioms(ground_last.statement)
        /\ \A i \in 1..Len(ground_last.generated) :
               ground_last.generated[i].axiom = "A3" =>
                   ground_last.generated[i].transformation
                       = "contradiction_elimination"

\* C20 (as stated): base reasoning sets needs_refinement exactly when it
\* recorded an unknown or a contradiction or found no pattern, and the
\* result the engine then builds has a refinement attached only when
\* needs_refinement holds and the depth leaves budget for it.
C20_NeedsRefinement ==
    "needs_refinement" \in DOMAIN probe =>
        /\ probe.needs_refinement
               <=> (probe.unknowns > 0 \/ probe.contradictions > 0
                    \/ probe.patterns = 0)
        /\ "refined" \in DOMAIN probe
        /\ probe.refined => (probe.needs_refinement /\ probe.budget)

\* ---- C21 ----
\* The distinct insight texts of the recorded levels that hold "new" or
\* "create", the levels whose certainty is strictly above 0.7, and the
\* number of insights of all levels, read off the record of the last call.
ClaimedNovel(ran) ==
    {t \in UNION {{ran[k].insights[i] : i \in 1..Len(ran[k].insights)} :
                     k \in 1..Len(ran)} : TextNovel(t)}
ClaimedDepthFactor(ran) ==
    Cardinality({k \in 1..Len(ran) : ran[k].certainty > 7000})
ClaimedTotal(ran) ==
    SumSeq([k \in 1..Len(ran) |-> Len(ran[k].insights)])
ClaimedCycleEmergence(ran) ==
    IF ClaimedNovel(ran) = {}
    THEN 0
    ELSE ((Log2U(1 + Cardinality(ClaimedNovel(ran))) * SqrtU(ClaimedTotal(ran)))
             \div Unit) * ClaimedDepthFactor(ran)

\* C21: the emergence of a reflect() cycle is 0 when no insight of the four
\* levels holds "new" or "create"; otherwise it is log2(1 + unique_patterns)
\* * depth_factor * sqrt(total insights), depth_factor being the number of
\* levels (0 to 4) whose certainty is strictly greater than 0.7; it is never
\* negative.
C21_CycleEmergence ==
    "emergence" \in DOMAIN r3_last =>
        /\ r3_last.emergence = ClaimedCycleEmergence(r3_last.ran)
        /\ r3_last.emergence >= 0
        /\ ClaimedDepthFactor(r3_last.ran) \in 0..4

\* A call whose levels held a matching insight and at least one level above
\* 0.7 has run, and its emergence is above 5.0: no cap applies.
C21_Witness ==
    /\ "emergence" \in DOMAIN r3_last
    /\ ClaimedNovel(r3_last.ran) # {}
    /\ ClaimedDepthFactor(r3_last.ran) > 0
    /\ r3_last.emergence > 5 * Unit

\* ---- C22 ----
\* what a level call reported: a breakthrough, and the framework record
ReportsBreakthrough(result) == ~IsRaised(result) /\ result.breakthrough
ReportsFramework(result) == ~IsRaised(result) /\ result.framework # <<>>

\* at least 5 samples, and the 5 most recent ones have a mean of 2.0 or more
ClaimedBreakthrough(h) ==
    /\ Len(h) >= 5
    /\ SumSeq(SubSeq(h, Len(h) - 4, Len(h))) >= 5 * 2 * Unit

ClaimedProposals(depth, certainty, flagged) ==
    <<[type |-> "increase_reasoning_depth",
       to |-> IF depth + 1 < 10 THEN depth + 1 ELSE 10,
       impact |-> 1500]>>
    \o (IF certainty < 7000
        THEN <<[type |-> "improve_certainty", to |-> 7000, impact |-> 1000]>>
        ELSE <<>>)
    \o (IF flagged # <<>>
        THEN <<[type |-> "optimize_patterns", to |-> 0, impact |-> 2000]>>
        ELSE <<>>)

\* what a proposal says: its kind, its target and its weight
ProposalsOf(improvements) ==
    [i \in 1..Len(improvements) |->
        [type |-> improvements[i].type,
         to |-> improvements[i].to,
         impact |-> improvements[i].impact]]

\* the proposals a level call made: none when the call raised
ProposedBy(result) ==
    IF IsRaised(result) THEN <<>> ELSE ProposalsOf(result.improvements)

\* C23 (as stated): the Regenerative level proposes one to three
\* improvements: always "increase reasoning depth" (0.15) towards
\* min(10, depth + 1), "improve certainty" (0.1) exactly when the recursive
\* level's certainty is below 0.7, and "optimize patterns" (0.2) exactly when
\* inefficient patterns were flagged; the reasoning-depth baseline never
\* exceeds 10.
C23_Proposals ==
    /\ reasoning_depth <= 10
    /\ (probe.kind = "_regenerative_level" /\ "result" \in DOMAIN probe) =>
          /\ ProposedBy(probe.result)
                = ClaimedProposals(probe.depth, probe.certainty, probe.flagged)
          /\ Len(ProposedBy(probe.result)) \in 1..3
    /\ "flagged" \in DOMAIN r3_last =>
          /\ ProposalsOf(r3_last.proposed)
                = ClaimedProposals(r3_last.depth_before,
                                   r3_last.ran[2].certainty, r3_last.flagged)
          /\ Len(r3_last.proposed) \in 1..3

-----------------------------------------------------------------------------
(* Claims about process() of ActualAbsoluteIntelligence (SpecSystem).      *)

\* C24 (as stated): a process() call stores a reasoning path whose
\* convergence record was computed from a Lambda history that already holds
\* the Lambda_total its own reflection cycle produced.
C24_UpdateBeforeConvergence ==
    system.last.outcome # "none" =>
        /\ system.last.outcome = "returned"
        /\ system.reasoning_paths # <<>>
        /\ system.lambda_history[Len(system.lambda_history)]
              = system.last.lambda_after
        /\ system.reasoning_paths[Len(system.reasoning_paths)].convergence
              = CheckConvergence(system.lambda_history)

LambdaTrace(h) ==
    [k \in 1..(Len(h) + 1) |->
        InitialLambda
        + SumSeq([i \in 1..(k - 1) |-> CalculateLambdaImpact(h[i])])]

\* C28: on the Lambda_total values any sequence of reflection cycles
\* produces the convergence check does not report converged = true, and
\* every cycle raises Lambda_total by at least 0.1 * 0.8 = 0.08.
C28_NeverConverged ==
    /\ ~CheckConvergence(LambdaTrace(emergence_history)).converged
    /\ \A k \in 1..Len(emergence_history) :
          LambdaTrace(emergence_history)[k + 1]
             - LambdaTrace(emergence_history)[k] >= 800
    /\ lambda_total
          = LambdaTrace(emergence_history)[Len(emergence_history) + 1]

\* A reflect() call has added the sixth or a later sample, every cycle so
\* far had emergence 0 and so the smallest impact, and the check on the
\* Lambda values says "not converged".
C28_Witness ==
    /\ r3_calls >= 1
    /\ Len(emergence_history) >= 6
    /\ \A k \in 1..Len(emergence_history) : emergence_history[k] = 0
    /\ ~CheckConvergence(LambdaTrace(emergence_history)).converged

\* C26 (as stated): the "no contradictions" safety check of a query is false
\* when the reasoning result of that query recorded at least one
\* contradiction, and true when it recorded none.
C26_NoContradictionsCheck ==
    "safety_passes" \in DOMAIN probe =>
        (probe.safety_passes[2] <=> probe.contradictions = 0)

-----------------------------------------------------------------------------
(* Claims about the cache of the reasoning engine (SpecReason).            *)

C30_CacheInStep ==
    /\ GetStats.cache_size = performance_stats.queries_processed
    /\ reason_last.op = "reason_about" =>
          /\ \A k \in DOMAIN reason_last.cache_before :
                /\ k \in DOMAIN reasoning_cache
                /\ reasoning_cache[k] = reason_last.cache_before[k]
          /\ reason_last.hit =>
                /\ reasoning_cache = reason_last.cache_before
                /\ performance_stats =
                      [reason_last.stats_before EXCEPT !.cache_hits = @ + 1]

\* reason_about calls have been made, one of them with a triple passed
\* before, and the cache and the counter of processed queries agree
C30_Witness ==
    /\ reason_last.op = "reason_about"
    /\ reason_last.calls >= 2
    /\ reason_last.repeated
    /\ GetStats.cache_size = performance_stats.queries_processed

=============================================================================
